---- MODULE Spec2Model ----
(***************************************************************************)
(* Formula pipeline of pdf2md: region merging, batch OCR dispatch,         *)
(* markdown patching and the hybrid orchestrator.                          *)
(*                                                                         *)
(* Text is modelled as a sequence of one-character strings.  Coordinates   *)
(* are integers (PDF points); the only division of the code, the vertical  *)
(* overlap ratio, is compared by cross-multiplication.                     *)
(***************************************************************************)
EXTENDS Integers, Sequences, FiniteSets, TLC

VARIABLES
    pc,          \* position of the running function
    regions,     \* list[FormulaRegion]: the argument of the running function
    idx,         \* _merge_nearby_regions: index (1-based) of next_region
    current,     \* _merge_nearby_regions: the accumulator region
    merged,      \* _merge_nearby_regions: the output list
    curSrc,      \* history: input indices merged into current
    mergedSrc,   \* history: input indices merged into each region of merged
    page_markdowns,  \* patch_markdown: the per-page markdown (argument)
    page_idx,        \* patch_markdown: 0-based index of the page in work
    page_regions,    \* patch_markdown: the page's regions (indices into
                     \* regions, 1-based), sorted
    ri,              \* patch_markdown: position in page_regions
    patched,         \* patch_markdown: current text of the page in work
    patched_pages,   \* patch_markdown: finished pages
    total_patched,   \* patch_markdown: counter
    total_skipped,   \* patch_markdown: counter
    patch_result,    \* patch_markdown: the returned string
    page_images,     \* ocr_formulas: page number -> rendered image (argument)
    api_key,         \* ocr_formulas: credential (argument)
    batch_size,      \* ocr_formulas: images per request (argument)
    max_workers,     \* ocr_formulas: size of the thread pool (argument)
    indexed_images,  \* ocr_formulas: list of <<region index, image>>
    batches,         \* ocr_formulas: indexed_images split into batches
    futures,         \* ocr_formulas: per batch, the state of its future
    all_results,     \* ocr_formulas: region index -> latex, merged results
    completed,       \* ocr_formulas: futures drained by as_completed
    requests,        \* history: batches for which a POST was issued
    crops,           \* history: number of calls of crop_formula_image
    ocr_input,       \* history: regions as passed to ocr_formulas
    ocr_result,      \* ocr_formulas: the returned list
    chunks,          \* _run_pymupdf: the page texts pymupdf4llm produced
    image_files,     \* _run_pymupdf: names of the files of the image directory
    detected,        \* per page, the list detect_formula_regions returns
    result,          \* _run_hybrid: the ConversionResult of _run_pymupdf
    doc_page,        \* _run_formula_ocr: page_num of the detection loop
    rendered,        \* history: pages for which get_pixmap was called
    patched_markdown,  \* _run_hybrid: what _run_formula_ocr returned
    exc,             \* position at which _run_formula_ocr raised, "" if none
    hyb_return,      \* _run_hybrid: how the call ended
    page_blocks,     \* detect_formula_regions: text_dict["blocks"] of the page
    page_width,      \* detect_formula_regions: page.rect.width
    page_number,     \* detect_formula_regions: page.number
    block_idx,       \* detect_formula_regions: block in work (1-based)
    line_idx,        \* detect_formula_regions: line in work (1-based)
    span_idx,        \* detect_formula_regions: span in work (1-based)
    current_math_spans,  \* detect_formula_regions: the group being collected
    det_regions,     \* detect_formula_regions: the local list regions
    groups,          \* history: every group handed to _build_region, with
                     \* what _build_region returned for it
    call_args,       \* a single function called on its own: its arguments
    call_result,     \* a single function called on its own: what it returned
    openrouter_api_key,  \* convert_pdf: credential (argument)
    ocr_model,       \* convert_pdf: name of the vision model (argument)
    pdf_parses,      \* whether pymupdf4llm can read the document
    doc_markdown,    \* _run_pymupdf: the text to_markdown gives in one piece
    tmp_file,        \* convert_pdf: whether the temporary file exists
    pymupdf_calls,   \* history: the calls of _run_pymupdf
    hybrid_calls,    \* history: the calls of _run_hybrid
    conv_return,     \* convert_pdf: how the call ended
    disk,            \* DiskCache: cache key -> the entry directory of the key
    stats_data,      \* DiskCache: the counters of _stats.json
    stat_calls,      \* DiskCache: per caller of put or record_read, its position
    stat_completed,  \* history: the completed calls, counted per counter
    ttl_seconds,     \* DiskCache: _ttl_seconds
    clock,           \* time.time()
    cache_puts,      \* history: the calls of DiskCache.put
    get_args,        \* DiskCache.get called on its own: its argument
    get_result,      \* DiskCache.get called on its own: what it returned
    req,             \* convert route: per request, its position and locals
    conversion_locks,  \* _conversion_locks: cache key -> lock
    lock_objs,       \* the asyncio.Lock objects created so far
    max_size_bytes   \* settings.max_pdf_size_bytes

mergeVars == <<idx, current, merged, curSrc, mergedSrc>>

patchVars == <<page_markdowns, page_idx, page_regions, ri, patched,
               patched_pages, total_patched, total_skipped, patch_result>>

ocrVars == <<page_images, api_key, batch_size, max_workers, indexed_images,
             batches, futures, all_results, completed, requests, crops,
             ocr_input, ocr_result>>

hybVars == <<chunks, image_files, detected, result, doc_page, rendered,
             patched_markdown, exc, hyb_return>>

detVars == <<page_blocks, page_width, page_number, block_idx, line_idx,
             span_idx, current_math_spans, det_regions, groups>>

callVars == <<call_args, call_result>>

convVars == <<openrouter_api_key, ocr_model, pdf_parses, doc_markdown,
              tmp_file, pymupdf_calls, hybrid_calls, conv_return>>

cacheVars == <<disk, stats_data, stat_calls, stat_completed, ttl_seconds, clock, cache_puts, get_args,
               get_result>>

routeVars == <<req, conversion_locks, lock_objs, max_size_bytes>>

vars == <<pc, regions, mergeVars, patchVars, ocrVars, hybVars, detVars,
          callVars, convVars, cacheVars, routeVars>>

\* ------------------------------------------------------------- helpers

NoArgs == <<>>

NotCalled == <<>>

\* No function is called on its own.
CallUnused == call_args = NoArgs /\ call_result = NotCalled

Max2(a, b) == IF a >= b THEN a ELSE b

Min2(a, b) == IF a <= b THEN a ELSE b

\* ------------------------------------------------------- FormulaRegion

FormulaRegion(page_num, bbox, is_display, spans, raw_chars, latex) ==
    [page_num |-> page_num, bbox |-> bbox, is_display |-> is_display,
     spans |-> spans, raw_chars |-> raw_chars, latex |-> latex]

\* Placeholder held by current while no region is accumulated.
NullRegion == FormulaRegion(0, <<0, 0, 0, 0>>, FALSE, <<>>, <<>>, <<>>)

\* ----------------------------------------------- _merge_nearby_regions

X_THRESHOLD == 3

\* overlap_height = max(0, overlap_bot - overlap_top)
OverlapHeight(cur, nxt) ==
    LET overlap_top == Max2(cur.bbox[2], nxt.bbox[2])
        overlap_bot == Min2(cur.bbox[4], nxt.bbox[4])
    IN  Max2(0, overlap_bot - overlap_top)

\* min_height = min(cur_height, nxt_height)
MinHeight(cur, nxt) ==
    LET cur_height == cur.bbox[4] - cur.bbox[2]
        nxt_height == nxt.bbox[4] - nxt.bbox[2]
    IN  Min2(cur_height, nxt_height)

\* y_overlap = min_height > 0 and (overlap_height / min_height) > 0.5
YOverlap(cur, nxt) ==
    /\ MinHeight(cur, nxt) > 0
    /\ 2 * OverlapHeight(cur, nxt) > MinHeight(cur, nxt)

\* x_gap = next_region.bbox[0] - current.bbox[2]
XGap(cur, nxt) == nxt.bbox[1] - cur.bbox[3]

ShouldMergeNoPage(cur, nxt) ==
    YOverlap(cur, nxt) /\ XGap(cur, nxt) < X_THRESHOLD

\* same_page and y_overlap and x_gap < x_threshold
ShouldMerge(cur, nxt) ==
    /\ cur.page_num = nxt.page_num
    /\ YOverlap(cur, nxt)
    /\ XGap(cur, nxt) < X_THRESHOLD

MergedRegionKeepsCurrentBox(cur, nxt) ==
    FormulaRegion(cur.page_num, cur.bbox, cur.is_display \/ nxt.is_display,
                  cur.spans \o nxt.spans, cur.raw_chars \o nxt.raw_chars, <<>>)

MergedRegionSwapsChars(cur, nxt) ==
    FormulaRegion(
        cur.page_num,
        <<Min2(cur.bbox[1], nxt.bbox[1]), Min2(cur.bbox[2], nxt.bbox[2]),
          Max2(cur.bbox[3], nxt.bbox[3]), Max2(cur.bbox[4], nxt.bbox[4])>>,
        cur.is_display \/ nxt.is_display,
        cur.spans \o nxt.spans, nxt.raw_chars \o cur.raw_chars, <<>>)

MergedRegionDropsNext(cur, nxt) ==
    FormulaRegion(
        cur.page_num,
        <<Min2(cur.bbox[1], nxt.bbox[1]), Min2(cur.bbox[2], nxt.bbox[2]),
          Max2(cur.bbox[3], nxt.bbox[3]), Max2(cur.bbox[4], nxt.bbox[4])>>,
        cur.is_display \/ nxt.is_display,
        cur.spans, cur.raw_chars, <<>>)

\* The region that replaces current and next_region when they merge.
MergedRegion(cur, nxt) ==
    FormulaRegion(
        cur.page_num,
        <<Min2(cur.bbox[1], nxt.bbox[1]), Min2(cur.bbox[2], nxt.bbox[2]),
          Max2(cur.bbox[3], nxt.bbox[3]), Max2(cur.bbox[4], nxt.bbox[4])>>,
        cur.is_display \/ nxt.is_display,
        cur.spans \o nxt.spans,
        cur.raw_chars \o nxt.raw_chars,
        <<>>)

\* if not regions: return regions; merged = []; current = regions[0]
MergeBegin ==
    /\ pc = "merge_begin"
    /\ IF regions = <<>>
       THEN /\ merged' = regions
            /\ pc' = "merge_done"
            /\ UNCHANGED <<idx, current, curSrc, mergedSrc>>
       ELSE /\ merged' = <<>>
            /\ current' = regions[1]
            /\ curSrc' = {1}
            /\ idx' = 2
            /\ pc' = "merge_loop"
            /\ UNCHANGED mergedSrc
    /\ UNCHANGED <<regions, patchVars, ocrVars, hybVars, detVars, callVars,
                   convVars, cacheVars, routeVars>>

\* One iteration of: for next_region in regions[1:]
MergeIter ==
    /\ pc = "merge_loop"
    /\ idx <= Len(regions)
    /\ LET next_region == regions[idx]
       IN  IF ShouldMerge(current, next_region)
           THEN /\ current' = MergedRegion(current, next_region)
                /\ curSrc' = curSrc \cup {idx}
                /\ UNCHANGED <<merged, mergedSrc>>
           ELSE /\ merged' = Append(merged, current)
                /\ mergedSrc' = Append(mergedSrc, curSrc)
                /\ current' = next_region
                /\ curSrc' = {idx}
    /\ idx' = idx + 1
    /\ UNCHANGED <<pc, regions, patchVars, ocrVars, hybVars, detVars, callVars,
                   convVars, cacheVars, routeVars>>

\* merged.append(current); return merged
MergeEnd ==
    /\ pc = "merge_loop"
    /\ idx > Len(regions)
    /\ merged' = Append(merged, current)
    /\ mergedSrc' = Append(mergedSrc, curSrc)
    /\ pc' = "merge_done"
    /\ UNCHANGED <<regions, idx, current, curSrc, patchVars, ocrVars, hybVars, detVars, callVars,
                   convVars, cacheVars, routeVars>>

MergeIdle ==
    /\ idx = 0
    /\ current = NullRegion
    /\ merged = <<>>
    /\ curSrc = {}
    /\ mergedSrc = <<>>

\* ------------------------------------------------ build_search_pattern

\* Characters for which str.isspace() holds and which \s matches.
Whitespace == {" ", "\t", "\n", "\r", "\f"}

\* _MD_FILLER = [\s_*\[\]]{0,6}
FillerChars == Whitespace \cup {"_", "*", "[", "]"}

MD_FILLER_MAX == 6

\* The two kinds of parts of a pattern: _MD_FILLER and re.escape(ch).
Filler == [kind |-> "filler", ch |-> ""]

Lit(c) == [kind |-> "lit", ch |-> c]

\* build_search_pattern returns None
NoPattern == <<>>

\* for ch in raw_chars: parts.append(re.escape(ch)); parts.append(_MD_FILLER)
RECURSIVE PatternParts(_)
PatternParts(raw_chars) ==
    IF raw_chars = <<>>
    THEN <<>>
    ELSE <<Lit(Head(raw_chars)), Filler>> \o PatternParts(Tail(raw_chars))

RECURSIVE LiteralParts(_)
LiteralParts(raw_chars) ==
    IF raw_chars = <<>>
    THEN <<>>
    ELSE <<Lit(Head(raw_chars))>> \o LiteralParts(Tail(raw_chars))

BuildSearchPatternNoFiller(raw_chars) ==
    IF Len(raw_chars) < 2 THEN <<>> ELSE LiteralParts(raw_chars)

BuildSearchPattern(raw_chars) ==
    IF Len(raw_chars) < 2
    THEN NoPattern
    ELSE <<Filler>> \o PatternParts(raw_chars)

\* ------------------------------------------- re: Pattern.search (model)

\* Number of filler characters of text from position p on, at most
\* MD_FILLER_MAX: what a greedy _MD_FILLER takes first.
RECURSIVE FillerRun(_, _, _)
FillerRun(text, p, n) ==
    IF n < MD_FILLER_MAX /\ p + n <= Len(text) /\ text[p + n] \in FillerChars
    THEN FillerRun(text, p, n + 1)
    ELSE n

\* Backtracking match of parts i.. of pat at position p of text: the position
\* after the match, or 0 when there is none.  A filler part tries the longest
\* run first and gives back one character at a time.
RECURSIVE MatchParts(_, _, _, _), MatchFiller(_, _, _, _, _)
MatchParts(text, p, pat, i) ==
    IF i > Len(pat)
    THEN p
    ELSE IF pat[i].kind = "lit"
         THEN IF p <= Len(text) /\ text[p] = pat[i].ch
              THEN MatchParts(text, p + 1, pat, i + 1)
              ELSE 0
         ELSE MatchFiller(text, p, pat, i, FillerRun(text, p, 0))

MatchFiller(text, p, pat, i, k) ==
    LET e == MatchParts(text, p + k, pat, i + 1)
    IN  IF e /= 0 THEN e
        ELSE IF k = 0 THEN 0
        ELSE MatchFiller(text, p, pat, i, k - 1)

\* search returns None
NoMatch == [start |-> 0, end |-> 0]

RECURSIVE SearchFrom(_, _, _)
SearchFrom(text, pat, s) ==
    IF s > Len(text) + 1
    THEN NoMatch
    ELSE LET e == MatchParts(text, s, pat, 1)
         IN  IF e /= 0
             THEN [start |-> s, end |-> e]
             ELSE SearchFrom(text, pat, s + 1)

\* pattern.search(text): the leftmost match; start is the 1-based position of
\* its first character and end the position after its last.
PatternSearch(pat, text) == SearchFrom(text, pat, 1)

\* pattern = build_search_pattern(raw_chars), then pattern.search(text) when
\* there is a pattern.
PatternCall ==
    /\ pc = "pattern_call"
    /\ LET pattern == BuildSearchPattern(call_args.raw_chars)
       IN  call_result' =
             [pattern |-> pattern,
              match |-> IF pattern = NoPattern THEN NoMatch
                        ELSE PatternSearch(pattern, call_args.text)]
    /\ pc' = "pattern_done"
    /\ UNCHANGED <<regions, mergeVars, patchVars, ocrVars, hybVars, detVars,
                   call_args, convVars, cacheVars, routeVars>>

\* ------------------------------------------------------- patch_markdown

\* str.strip()
RECURSIVE LStrip(_)
LStrip(s) ==
    IF s /= <<>> /\ Head(s) \in Whitespace THEN LStrip(Tail(s)) ELSE s

RECURSIVE RStrip(_)
RStrip(s) ==
    IF s /= <<>> /\ s[Len(s)] \in Whitespace
    THEN RStrip(SubSeq(s, 1, Len(s) - 1))
    ELSE s

Strip(s) == RStrip(LStrip(s))

\* "\n".join(pages)
RECURSIVE JoinLines(_)
JoinLines(pages) ==
    IF pages = <<>> THEN <<>>
    ELSE IF Len(pages) = 1 THEN pages[1]
    ELSE pages[1] \o <<"\n">> \o JoinLines(Tail(pages))

\* regions_by_page.get(page_idx, []): the indices of the regions of the page,
\* in input order.
RegionsByPage(regs, p) ==
    SelectSeq([i \in 1..Len(regs) |-> i], LAMBDA i : regs[i].page_num = p)

\* Where a stable descending sort puts x among the already sorted elements:
\* after every element whose key is at least its own.
InsertByLen(sorted, x, regs) ==
    LET keep == Cardinality({k \in 1..Len(sorted) :
                   Len(regs[sorted[k]].raw_chars) >= Len(regs[x].raw_chars)})
    IN  SubSeq(sorted, 1, keep) \o <<x>> \o SubSeq(sorted, keep + 1, Len(sorted))

RECURSIVE StableSortDesc(_, _)
StableSortDesc(seq, regs) ==
    IF seq = <<>>
    THEN <<>>
    ELSE InsertByLen(StableSortDesc(SubSeq(seq, 1, Len(seq) - 1), regs),
                     seq[Len(seq)], regs)

SortedPageRegionsUnsorted(regs, p) == RegionsByPage(regs, p)

\* page_regions.sort(key=lambda r: len(r.raw_chars), reverse=True)
SortedPageRegions(regs, p) == StableSortDesc(RegionsByPage(regs, p), regs)

ReplacementAlwaysInline(region, latex) == <<"$">> \o latex \o <<"$">>

\* f"$${latex}$$" if region.is_display else f"${latex}$"
Replacement(region, latex) ==
    IF region.is_display
    THEN <<"$", "$">> \o latex \o <<"$", "$">>
    ELSE <<"$">> \o latex \o <<"$">>

RegionMatchNoBlankCheck(text, region) ==
    IF region.latex = <<>> THEN NoMatch
    ELSE LET pattern == BuildSearchPattern(region.raw_chars)
         IN  IF pattern = NoPattern THEN NoMatch
             ELSE PatternSearch(pattern, text)

\* The match the loop body replaces, or NoMatch when the region is skipped.
RegionMatch(text, region) ==
    IF region.latex = <<>> THEN NoMatch
    ELSE IF Strip(region.latex) = <<>> THEN NoMatch
    ELSE LET pattern == BuildSearchPattern(region.raw_chars)
         IN  IF pattern = NoPattern THEN NoMatch
             ELSE PatternSearch(pattern, text)

PatchOneDropsTail(text, region) ==
    LET m == RegionMatch(text, region)
    IN  IF m = NoMatch
        THEN text
        ELSE SubSeq(text, 1, m.start - 1)
               \o Replacement(region, Strip(region.latex))

\* The text after the body of "for region in page_regions" has run on it.
PatchOne(text, region) ==
    LET m == RegionMatch(text, region)
    IN  IF m = NoMatch
        THEN text
        ELSE SubSeq(text, 1, m.start - 1)
               \o Replacement(region, Strip(region.latex))
               \o SubSeq(text, m.end, Len(text))

\* regions_by_page = {...}; patched_pages = []; total_patched = total_skipped = 0
PatchBegin ==
    /\ pc = "patch_begin"
    /\ patched_pages' = <<>>
    /\ total_patched' = 0
    /\ total_skipped' = 0
    /\ page_idx' = 0
    /\ pc' = "patch_page"
    /\ UNCHANGED <<regions, page_markdowns, page_regions, ri, patched,
                   patch_result, mergeVars, ocrVars, hybVars, detVars, callVars,
                   convVars, cacheVars, routeVars>>

\* for page_idx, page_md in enumerate(page_markdowns): ... page_regions.sort
PatchPage ==
    /\ pc = "patch_page"
    /\ page_idx < Len(page_markdowns)
    /\ page_regions' = SortedPageRegions(regions, page_idx)
    /\ patched' = page_markdowns[page_idx + 1]
    /\ ri' = 1
    /\ pc' = "patch_region"
    /\ UNCHANGED <<regions, page_markdowns, page_idx, patched_pages,
                   total_patched, total_skipped, patch_result, mergeVars, ocrVars, hybVars, detVars, callVars,
                   convVars, cacheVars, routeVars>>

\* One iteration of: for region in page_regions
PatchRegion ==
    /\ pc = "patch_region"
    /\ ri <= Len(page_regions)
    /\ LET region == regions[page_regions[ri]]
       IN  /\ patched' = PatchOne(patched, region)
           /\ IF RegionMatch(patched, region) = NoMatch
              THEN /\ total_skipped' = total_skipped + 1
                   /\ UNCHANGED total_patched
              ELSE /\ total_patched' = total_patched + 1
                   /\ UNCHANGED total_skipped
    /\ ri' = ri + 1
    /\ UNCHANGED <<pc, regions, page_markdowns, page_idx, page_regions,
                   patched_pages, patch_result, mergeVars, ocrVars, hybVars, detVars, callVars,
                   convVars, cacheVars, routeVars>>

\* patched_pages.append(patched)
PatchPageEnd ==
    /\ pc = "patch_region"
    /\ ri > Len(page_regions)
    /\ patched_pages' = Append(patched_pages, patched)
    /\ page_idx' = page_idx + 1
    /\ pc' = "patch_page"
    /\ UNCHANGED <<regions, page_markdowns, page_regions, ri, patched,
                   total_patched, total_skipped, patch_result, mergeVars, ocrVars, hybVars, detVars, callVars,
                   convVars, cacheVars, routeVars>>

\* return "\n".join(patched_pages)
PatchEnd ==
    /\ pc = "patch_page"
    /\ page_idx >= Len(page_markdowns)
    /\ patch_result' = JoinLines(patched_pages)
    /\ pc' = "patch_done"
    /\ UNCHANGED <<regions, page_markdowns, page_idx, page_regions, ri,
                   patched, patched_pages, total_patched, total_skipped,
                   mergeVars, ocrVars, hybVars, detVars, callVars, convVars,
                   cacheVars, routeVars>>

PatchIdle ==
    /\ page_idx = 0
    /\ page_regions = <<>>
    /\ ri = 0
    /\ patched = <<>>
    /\ patched_pages = <<>>
    /\ total_patched = 0
    /\ total_skipped = 0
    /\ patch_result = <<>>

\* -------------------------------------------------- crop_formula_image

RENDER_DPI == 300

CROP_PADDING == 5

\* int(): truncation towards zero
TruncDiv(a, b) == IF a >= 0 THEN a \div b ELSE -((-a) \div b)

\* int(v * scale) with scale = dpi / 72.0
ToPixel(v, dpi) == TruncDiv(v * dpi, 72)

\* The pixel rectangle cropped from the page image and the size of the
\* padded image returned.
CropFormulaImage(page_img, formula_bbox, dpi) ==
    LET x0 == Max2(0, ToPixel(formula_bbox[1], dpi))
        y0 == Max2(0, ToPixel(formula_bbox[2], dpi))
        x1 == Min2(page_img.width, ToPixel(formula_bbox[3], dpi))
        y1 == Min2(page_img.height, ToPixel(formula_bbox[4], dpi))
    IN  [box |-> <<x0, y0, x1, y1>>,
         width |-> (x1 - x0) + 2 * CROP_PADDING,
         height |-> (y1 - y0) + 2 * CROP_PADDING]

\* A US letter page rendered at RENDER_DPI.
PageImage == [width |-> 2550, height |-> 3300]

\* page_img.crop(box) for a box with right < left or lower < upper: Pillow
\* raises ValueError, and releases before that check return an image with
\* the negative extent taken as 0.
BoxInverted(box) == box[3] < box[1] \/ box[4] < box[2]

\* The ways a call of crop_formula_image can end: the rectangle asked of
\* page_img.crop, the size of the padded image, and where the crop is pasted.
CropOutcomes(page_img, formula_bbox, dpi) ==
    LET c == CropFormulaImage(page_img, formula_bbox, dpi)
        w == Max2(0, c.box[3] - c.box[1])
        h == Max2(0, c.box[4] - c.box[2])
        returned == [raised |-> FALSE, box |-> c.box,
                     width |-> w + 2 * CROP_PADDING,
                     height |-> h + 2 * CROP_PADDING,
                     paste |-> <<CROP_PADDING, CROP_PADDING>>]
        failed == [raised |-> TRUE, box |-> c.box, width |-> 0, height |-> 0,
                   paste |-> <<0, 0>>]
    IN  IF BoxInverted(c.box) THEN {failed, returned} ELSE {returned}

\* crop_formula_image(page_pixmap_bytes, formula_bbox, dpi)
CropCall ==
    /\ pc = "crop_call"
    /\ call_result' \in CropOutcomes(call_args.page_img, call_args.formula_bbox,
                                     call_args.dpi)
    /\ pc' = "crop_done"
    /\ UNCHANGED <<regions, mergeVars, patchVars, ocrVars, hybVars, detVars,
                   call_args, convVars, cacheVars, routeVars>>

\* ----------------------------------------------- _ocr_batch_openrouter

\* A line of the response text, stripped.  A line that matches
\* ^(\d+)[:.]\s*(.+)$ is numbered: seq is group 1, body is group 2.
\* Every other non-empty line is of kind "other".
Line(n, body) == [kind |-> "numbered", seq |-> n, body |-> body]

OtherLine == [kind |-> "other", seq |-> 0, body |-> <<>>]

Unreadable == <<"?", "?", "?">>

\* re.sub(r"^\$+|\$+$", "", latex)
RECURSIVE LStripDollars(_)
LStripDollars(s) ==
    IF s /= <<>> /\ Head(s) = "$" THEN LStripDollars(Tail(s)) ELSE s

RECURSIVE RStripDollars(_)
RStripDollars(s) ==
    IF s /= <<>> /\ s[Len(s)] = "$"
    THEN RStripDollars(SubSeq(s, 1, Len(s) - 1))
    ELSE s

StripDollars(s) == RStripDollars(LStripDollars(s))

\* d.update(e) for dicts as functions
DictUpdate(d, e) ==
    [k \in (DOMAIN d) \cup (DOMAIN e) |-> IF k \in DOMAIN e THEN e[k] ELSE d[k]]

EmptyDict == <<>>

\* for line in response_text.strip().split("\n"): ...
RECURSIVE ParseLines(_, _, _)
ParseLines(batch, lines, results) ==
    IF lines = <<>>
    THEN results
    ELSE LET ln == Head(lines)
             latex == Strip(ln.body)
         IN  ParseLines(batch, Tail(lines),
               IF /\ ln.kind = "numbered"
                  /\ latex /= <<>>
                  /\ latex /= Unreadable
                  /\ 1 <= ln.seq
                  /\ ln.seq <= Len(batch)
               THEN DictUpdate(results,
                      [k \in {batch[ln.seq][1]} |-> Strip(StripDollars(latex))])
               ELSE results)

\* The dict a batch returns for a response: region index -> latex.
OcrBatchResults(batch, lines) == ParseLines(batch, lines, EmptyDict)

Digits == <<"0", "1", "2", "3", "4", "5", "6", "7", "8", "9">>

IsDigit(c) == \E d \in 1..10 : Digits[d] = c

DigitValue(c) == (CHOOSE d \in 1..10 : Digits[d] = c) - 1

\* int(m.group(1)) for a run of digits
RECURSIVE IntOf(_)
IntOf(ds) ==
    IF ds = <<>> THEN 0
    ELSE 10 * IntOf(SubSeq(ds, 1, Len(ds) - 1)) + DigitValue(ds[Len(ds)])

\* Length of the run of digits at the head of a line: what \d+ takes.
RECURSIVE DigitRun(_, _)
DigitRun(line, n) ==
    IF n < Len(line) /\ IsDigit(line[n + 1]) THEN DigitRun(line, n + 1) ELSE n

\* re.match(r"^(\d+)[:.]\s*(.+)$", line) on a stripped line: the digits, a
\* colon or full stop, whitespace, and a rest of at least one character.
MatchNumbered(line) ==
    LET n == DigitRun(line, 0)
        rest == IF n + 1 <= Len(line)
                THEN LStrip(SubSeq(line, n + 2, Len(line)))
                ELSE <<>>
    IN  IF n >= 1 /\ n + 1 <= Len(line) /\ line[n + 1] \in {":", "."}
           /\ rest /= <<>>
        THEN Line(IntOf(SubSeq(line, 1, n)), rest)
        ELSE OtherLine

\* text.split("\n")
RECURSIVE SplitNewline(_, _)
SplitNewline(text, cur) ==
    IF text = <<>>
    THEN <<cur>>
    ELSE IF Head(text) = "\n"
         THEN <<cur>> \o SplitNewline(Tail(text), <<>>)
         ELSE SplitNewline(Tail(text), Append(cur, Head(text)))

\* The lines of response_text.strip().split("\n"), each stripped and matched.
ResponseLines(response_text) ==
    LET raw == SplitNewline(Strip(response_text), <<>>)
    IN  [k \in 1..Len(raw) |-> MatchNumbered(Strip(raw[k]))]

\* The parsing part of _ocr_batch_openrouter on a response text.
ParseCall ==
    /\ pc = "parse_call"
    /\ call_result' = OcrBatchResults(call_args.batch,
                                      ResponseLines(call_args.response_text))
    /\ pc' = "parse_done"
    /\ UNCHANGED <<regions, mergeVars, patchVars, ocrVars, hybVars, detVars,
                   call_args, convVars, cacheVars, routeVars>>

\* --------------------------------------------------------- ocr_formulas

DEFAULT_BATCH_SIZE == 30

DEFAULT_MAX_WORKERS == 10

OcrIsNoOpWithoutRegions(regs, key) == regs = <<>>

\* if not regions or not api_key: return regions
OcrIsNoOp(regs, key) == regs = <<>> \/ key = ""

\* indexed_images: (i, crop) for every region whose page has an image; the
\* region index i is kept 1-based here.
IndexedImagesByPage(regs, imgs) ==
    LET with == SelectSeq([i \in 1..Len(regs) |-> i],
                          LAMBDA i : regs[i].page_num \in DOMAIN imgs)
    IN  [k \in 1..Len(with) |->
           <<regs[with[k]].page_num + 1,
             CropFormulaImage(imgs[regs[with[k]].page_num],
                              regs[with[k]].bbox, RENDER_DPI)>>]

IndexedImages(regs, imgs) ==
    LET with == SelectSeq([i \in 1..Len(regs) |-> i],
                          LAMBDA i : regs[i].page_num \in DOMAIN imgs)
    IN  [k \in 1..Len(with) |->
           <<with[k], CropFormulaImage(imgs[regs[with[k]].page_num],
                                       regs[with[k]].bbox, RENDER_DPI)>>]

\* for start in range(0, len(indexed_images), batch_size):
\*     batches.append(indexed_images[start : start + batch_size])
RECURSIVE SplitFrom(_, _, _)
SplitFrom(images, start, size) ==
    IF start >= Len(images)
    THEN <<>>
    ELSE <<SubSeq(images, start + 1, Min2(start + size, Len(images)))>>
           \o SplitFrom(images, start + size, size)

RECURSIVE SplitFullOnly(_, _, _)
SplitFullOnly(images, start, size) ==
    IF start + size > Len(images)
    THEN <<>>
    ELSE <<SubSeq(images, start + 1, start + size)>>
           \o SplitFullOnly(images, start + size, size)

SplitBatchesDropsRest(images, size) == SplitFullOnly(images, 0, size)

SplitBatches(images, size) == SplitFrom(images, 0, size)

\* A submitted call of _ocr_batch_openrouter: its state in the pool, whether
\* it returned, the lines of the response it read, the dict it returned and
\* its position in the order in which as_completed delivered the futures.
PendingFuture ==
    [state |-> "pending", ok |-> TRUE, response |-> <<>>, results |-> EmptyDict,
     delivered |-> 0]

FutureResultNoCatch(f) ==
    [raised |-> ~f.ok, results |-> IF f.ok THEN f.results ELSE EmptyDict]

\* try: batch_results = future.result(); all_results.update(batch_results)
\* except Exception: logger.exception(...)
FutureResult(f) ==
    [raised |-> FALSE, results |-> IF f.ok THEN f.results ELSE EmptyDict]

Running == {b \in DOMAIN futures : futures[b].state = "running"}

\* Responses of the endpoint to a batch: nothing; one line per image; one
\* line in dollar signs; and noise (an unnumbered line, a number beyond the
\* batch, an unreadable image, a repeated number).
OcrResponses(batch) ==
    { <<>>,
      [k \in 1..Len(batch) |-> Line(k, <<"z", ToString(batch[k][1])>>)],
      << Line(1, <<"$", "$", "w", "$">>) >>,
      << OtherLine, Line(Len(batch) + 1, <<"v">>), Line(1, Unreadable),
         Line(Len(batch), <<"u">>), Line(Len(batch), <<"t">>) >> }

\* if not regions or not api_key: return regions
OcrBegin ==
    /\ pc = "ocr_begin"
    /\ IF OcrIsNoOp(regions, api_key)
       THEN /\ ocr_result' = regions
            /\ pc' = "ocr_done"
       ELSE /\ pc' = "ocr_prepare"
            /\ UNCHANGED ocr_result
    /\ UNCHANGED <<regions, page_images, api_key, batch_size, max_workers,
                   indexed_images, batches, futures, all_results, completed,
                   requests, crops, ocr_input, mergeVars, patchVars, hybVars, detVars, callVars,
                   convVars, cacheVars, routeVars>>

\* Crop every region, split into batches, submit every batch to the pool.
OcrPrepare ==
    /\ pc = "ocr_prepare"
    /\ indexed_images' = IndexedImages(regions, page_images)
    /\ crops' = Len(indexed_images')
    /\ batches' = SplitBatches(indexed_images', batch_size)
    /\ futures' = [b \in 1..Len(batches') |-> PendingFuture]
    /\ all_results' = EmptyDict
    /\ completed' = 0
    /\ pc' = "ocr_pool"
    /\ UNCHANGED <<regions, page_images, api_key, batch_size, max_workers,
                   requests, ocr_input, ocr_result, mergeVars, patchVars, hybVars, detVars, callVars,
                   convVars, cacheVars, routeVars>>

\* A free worker takes the oldest queued batch and posts its request.
OcrBatchStart ==
    /\ pc = "ocr_pool"
    /\ \E b \in DOMAIN futures :
         /\ futures[b].state = "pending"
         /\ \A b2 \in 1..(b - 1) : futures[b2].state /= "pending"
         /\ Cardinality(Running) < max_workers
         /\ futures' = [futures EXCEPT ![b].state = "running"]
         /\ requests' = Append(requests, b)
    /\ UNCHANGED <<pc, regions, page_images, api_key, batch_size, max_workers,
                   indexed_images, batches, all_results, completed, crops,
                   ocr_input, ocr_result, mergeVars, patchVars, hybVars, detVars, callVars,
                   convVars, cacheVars, routeVars>>

\* _ocr_batch_openrouter raises: the request or reading the response failed.
OcrBatchFails ==
    /\ pc = "ocr_pool"
    /\ \E b \in DOMAIN futures :
         /\ futures[b].state = "running"
         /\ futures' = [futures EXCEPT ![b] =
                          [state |-> "finished", ok |-> FALSE,
                           response |-> <<>>, results |-> EmptyDict,
                           delivered |-> 0]]
    /\ UNCHANGED <<pc, regions, page_images, api_key, batch_size, max_workers,
                   indexed_images, batches, all_results, completed, requests,
                   crops, ocr_input, ocr_result, mergeVars, patchVars, hybVars, detVars, callVars,
                   convVars, cacheVars, routeVars>>

\* _ocr_batch_openrouter returns the parsed response.
OcrBatchReturns ==
    /\ pc = "ocr_pool"
    /\ \E b \in DOMAIN futures :
         /\ futures[b].state = "running"
         /\ \E lines \in OcrResponses(batches[b]) :
              futures' = [futures EXCEPT ![b] =
                            [state |-> "finished", ok |-> TRUE,
                             response |-> lines,
                             results |-> OcrBatchResults(batches[b], lines),
                             delivered |-> 0]]
    /\ UNCHANGED <<pc, regions, page_images, api_key, batch_size, max_workers,
                   indexed_images, batches, all_results, completed, requests,
                   crops, ocr_input, ocr_result, mergeVars, patchVars, hybVars, detVars, callVars,
                   convVars, cacheVars, routeVars>>

OcrCollectWritesEarly ==
    /\ pc = "ocr_pool"
    /\ \E b \in DOMAIN futures :
         /\ futures[b].state = "finished"
         /\ futures' = [futures EXCEPT ![b].state = "collected",
                                       ![b].delivered = completed + 1]
         /\ all_results' = DictUpdate(all_results, FutureResult(futures[b]).results)
         /\ regions' = [i \in 1..Len(regions) |->
                          IF i \in DOMAIN all_results'
                          THEN [regions[i] EXCEPT !.latex = all_results'[i]]
                          ELSE regions[i]]
         /\ completed' = completed + 1
    /\ UNCHANGED <<pc, page_images, api_key, batch_size, max_workers,
                   indexed_images, batches, requests, crops, ocr_input,
                   ocr_result, mergeVars, patchVars, hybVars, detVars, callVars,
                   convVars, cacheVars, routeVars>>

\* One iteration of: for future in as_completed(futures)
OcrCollect ==
    /\ pc = "ocr_pool"
    /\ \E b \in DOMAIN futures :
         /\ futures[b].state = "finished"
         /\ futures' = [futures EXCEPT ![b].state = "collected",
                                       ![b].delivered = completed + 1]
         /\ IF FutureResult(futures[b]).raised
            THEN /\ pc' = "ocr_raised"
                 /\ UNCHANGED <<all_results, completed>>
            ELSE /\ all_results' = DictUpdate(all_results, FutureResult(futures[b]).results)
                 /\ completed' = completed + 1
                 /\ pc' = pc
    /\ UNCHANGED <<regions, page_images, api_key, batch_size, max_workers,
                   indexed_images, batches, requests, crops, ocr_input,
                   ocr_result, mergeVars, patchVars, hybVars, detVars, callVars,
                   convVars, cacheVars, routeVars>>

\* Every future is drained: for idx, latex in all_results.items():
\* regions[idx].latex = latex; return regions
OcrWriteBack ==
    /\ pc = "ocr_pool"
    /\ \A b \in DOMAIN futures : futures[b].state = "collected"
    /\ regions' = [i \in 1..Len(regions) |->
                     IF i \in DOMAIN all_results
                     THEN [regions[i] EXCEPT !.latex = all_results[i]]
                     ELSE regions[i]]
    /\ ocr_result' = regions'
    /\ pc' = "ocr_done"
    /\ UNCHANGED <<page_images, api_key, batch_size, max_workers,
                   indexed_images, batches, futures, all_results, completed,
                   requests, crops, ocr_input, mergeVars, patchVars, hybVars, detVars, callVars,
                   convVars, cacheVars, routeVars>>

OcrIdle ==
    /\ indexed_images = <<>>
    /\ batches = <<>>
    /\ futures = <<>>
    /\ all_results = EmptyDict
    /\ completed = 0
    /\ requests = <<>>
    /\ crops = 0
    /\ ocr_result = <<>>

\* Everything of ocr_formulas unused (the function is not called).
OcrUnused ==
    /\ page_images = <<>>
    /\ api_key = ""
    /\ batch_size = DEFAULT_BATCH_SIZE
    /\ max_workers = DEFAULT_MAX_WORKERS
    /\ ocr_input = <<>>
    /\ OcrIdle

\* ------------------------------------------------------- _run_pymupdf

IMAGE_DIR == "/tmp/pymupdf_images"

\* str(img_file): the absolute path of a file of the image directory
ImagePath(name) == IMAGE_DIR \o "/" \o name

\* markdown.replace(<path of the image>, <name of the image>) for every
\* image; a path is one element of the text.
NormalizeImagePaths(markdown, names) ==
    [k \in 1..Len(markdown) |->
        IF \E nm \in names : markdown[k] = ImagePath(nm)
        THEN CHOOSE nm \in names : markdown[k] = ImagePath(nm)
        ELSE markdown[k]]

ConversionResult(markdown, images, page_count) ==
    [markdown |-> markdown, images |-> images, page_count |-> page_count]

NoResult == ConversionResult(<<>>, {}, 0)

\* _run_pymupdf(pdf_path, page_chunks=True): the pages joined by a newline,
\* image paths replaced by image names, the images, the page count.
RunPymupdf(texts, names) ==
    ConversionResult(NormalizeImagePaths(JoinLines(texts), names), names,
                     Len(texts))

\* ---------------------------------------------------- _run_formula_ocr

NoRegionsNever(regs) == FALSE

\* if not all_regions
NoRegions(regs) == regs = <<>>

\* pages_with_formulas = {r.page_num for r in all_regions}
PagesWithFormulas(regs) == {regs[i].page_num : i \in 1..Len(regs)}

\* The positions inside the call of _run_formula_ocr.
FormulaOcrPcs ==
    {"hyb_detect", "hyb_render", "ocr_begin", "ocr_prepare", "ocr_pool",
     "ocr_done", "patch_begin", "patch_page", "patch_region", "patch_done"}

\* One iteration of: for page_num in range(len(doc)):
\*     all_regions.extend(detect_formula_regions(page))
HybDetectPage ==
    /\ pc = "hyb_detect"
    /\ doc_page < Len(detected)
    /\ regions' = regions \o detected[doc_page + 1]
    /\ doc_page' = doc_page + 1
    /\ UNCHANGED <<pc, mergeVars, patchVars, ocrVars, chunks, image_files,
                   detected, result, rendered, patched_markdown, exc,
                   hyb_return, detVars, callVars, convVars, cacheVars,
                   routeVars>>

\* if not all_regions: return "\n".join(page_markdowns)
HybDetectEnd ==
    /\ pc = "hyb_detect"
    /\ doc_page >= Len(detected)
    /\ IF NoRegions(regions)
       THEN /\ patched_markdown' = JoinLines(page_markdowns)
            /\ pc' = "hyb_normalize"
       ELSE /\ pc' = "hyb_render"
            /\ UNCHANGED patched_markdown
    /\ UNCHANGED <<regions, mergeVars, patchVars, ocrVars, chunks,
                   image_files, detected, result, doc_page, rendered, exc,
                   hyb_return, detVars, callVars, convVars, cacheVars,
                   routeVars>>

\* for page_num in pages_with_formulas: page_images[page_num] = ...
\* then the call ocr_formulas(all_regions, page_images, model=, api_key=)
HybRender ==
    /\ pc = "hyb_render"
    /\ rendered' = PagesWithFormulas(regions)
    /\ page_images' = [p \in PagesWithFormulas(regions) |-> PageImage]
    /\ ocr_input' = regions
    /\ pc' = "ocr_begin"
    /\ UNCHANGED <<regions, mergeVars, patchVars, api_key, batch_size,
                   max_workers, indexed_images, batches, futures,
                   all_results, completed, requests, crops, ocr_result,
                   chunks, image_files, detected, result, doc_page,
                   patched_markdown, exc, hyb_return, detVars, callVars,
                   convVars, cacheVars, routeVars>>

\* all_regions = ocr_formulas(...); the call patch_markdown(page_markdowns,
\* all_regions)
HybPatchCall ==
    /\ pc = "ocr_done"
    /\ regions' = ocr_result
    /\ pc' = "patch_begin"
    /\ UNCHANGED <<mergeVars, patchVars, ocrVars, hybVars, detVars, callVars,
                   convVars, cacheVars, routeVars>>

\* return patch_markdown(...)
HybPatchReturn ==
    /\ pc = "patch_done"
    /\ patched_markdown' = patch_result
    /\ pc' = "hyb_normalize"
    /\ UNCHANGED <<regions, mergeVars, patchVars, ocrVars, chunks,
                   image_files, detected, result, doc_page, rendered, exc,
                   hyb_return, detVars, callVars, convVars, cacheVars,
                   routeVars>>

\* Any statement of _run_formula_ocr, or of a function it calls, raises an
\* Exception.
HybFormulaOcrRaises ==
    /\ pc \in FormulaOcrPcs
    /\ exc' = pc
    /\ pc' = "hyb_except"
    /\ UNCHANGED <<regions, mergeVars, patchVars, ocrVars, chunks,
                   image_files, detected, result, doc_page, rendered,
                   patched_markdown, hyb_return, detVars, callVars, convVars,
                   cacheVars, routeVars>>

\* ---------------------------------------------------------- _run_hybrid

Returned(value) == [raised |-> FALSE, value |-> value]

Raised == [raised |-> TRUE, value |-> NoResult]

NotReturned == [raised |-> FALSE, value |-> NoResult]

OnFormulaOcrErrorPropagates(res) == Raised

\* except Exception: logger.exception(...); return result
OnFormulaOcrError(res) == Returned(res)

\* result = _run_pymupdf(pdf_path, page_chunks=True);
\* if not page_markdowns: return result
HybBegin ==
    /\ pc = "hyb_begin"
    /\ pdf_parses
    /\ pymupdf_calls' = Append(pymupdf_calls, [page_chunks |-> TRUE])
    /\ result' = RunPymupdf(chunks, image_files)
    /\ page_markdowns' = chunks
    /\ IF chunks = <<>>
       THEN /\ hyb_return' = Returned(result')
            /\ pc' = "hyb_done"
       ELSE /\ pc' = "hyb_detect"
            /\ UNCHANGED hyb_return
    /\ UNCHANGED <<regions, mergeVars, page_idx, page_regions, ri, patched,
                   patched_pages, total_patched, total_skipped, patch_result,
                   ocrVars, chunks, image_files, detected, doc_page,
                   rendered, patched_markdown, exc, detVars, callVars,
                   openrouter_api_key, ocr_model, pdf_parses, doc_markdown,
                   tmp_file, hybrid_calls, conv_return,
                   cacheVars, routeVars>>

\* result = _run_pymupdf(pdf_path, page_chunks=True) raises ConversionError:
\* the call is outside the try, so _run_hybrid raises it.
HybPymupdfRaises ==
    /\ pc = "hyb_begin"
    /\ ~pdf_parses
    /\ pymupdf_calls' = Append(pymupdf_calls, [page_chunks |-> TRUE])
    /\ hyb_return' = Raised
    /\ pc' = "hyb_raised"
    /\ UNCHANGED <<regions, mergeVars, patchVars, ocrVars, chunks,
                   image_files, detected, result, doc_page, rendered,
                   patched_markdown, exc, detVars, callVars,
                   openrouter_api_key, ocr_model, pdf_parses, doc_markdown,
                   tmp_file, hybrid_calls, conv_return,
                   cacheVars, routeVars>>

\* The except clause around the call of _run_formula_ocr.
HybExcept ==
    /\ pc = "hyb_except"
    /\ hyb_return' = OnFormulaOcrError(result)
    /\ pc' = IF hyb_return'.raised THEN "hyb_raised" ELSE "hyb_done"
    /\ UNCHANGED <<regions, mergeVars, patchVars, ocrVars, chunks,
                   image_files, detected, result, doc_page, rendered,
                   patched_markdown, exc, detVars, callVars, convVars,
                   cacheVars, routeVars>>

\* Image paths normalised again; return ConversionResult(...)
HybReturn ==
    /\ pc = "hyb_normalize"
    /\ hyb_return' =
         Returned(ConversionResult(
                    NormalizeImagePaths(patched_markdown, result.images),
                    result.images, result.page_count))
    /\ pc' = "hyb_done"
    /\ UNCHANGED <<regions, mergeVars, patchVars, ocrVars, chunks,
                   image_files, detected, result, doc_page, rendered,
                   patched_markdown, exc, detVars, callVars, convVars,
                   cacheVars, routeVars>>

HybridIdle ==
    /\ result = NoResult
    /\ doc_page = 0
    /\ rendered = {}
    /\ patched_markdown = <<>>
    /\ exc = ""
    /\ hyb_return = NotReturned

\* Everything of _run_hybrid unused (the function is not called).
HybridUnused ==
    /\ chunks = <<>>
    /\ image_files = {}
    /\ detected = <<>>
    /\ HybridIdle

\* ---------------------------------------------------------- convert_pdf

\* ConversionError.status_code (the default) and that of
\* ConversionTimeoutError
CONVERSION_ERROR_STATUS == 400

CONVERSION_TIMEOUT_STATUS == 504

\* _run_pymupdf(pdf_path): page_chunks is False, the markdown is the one
\* text to_markdown returns, image paths replaced by image names.
RunPymupdfWhole(markdown, names, page_count) ==
    ConversionResult(NormalizeImagePaths(markdown, names), names, page_count)

ConvReturned(value) == [raised |-> FALSE, status |-> 0, value |-> value]

ConvRaised(status) == [raised |-> TRUE, status |-> status, value |-> NoResult]

ConvNotReturned == ConvReturned(NoResult)

UseHybridAlways(key) == TRUE

\* if openrouter_api_key:
UseHybrid(key) == key /= ""

\* The positions at which the thread started by asyncio.to_thread runs.
ConvThreadPcs ==
    {"conv_plain", "hyb_begin", "hyb_detect", "hyb_render", "hyb_except",
     "hyb_normalize", "ocr_begin", "ocr_prepare", "ocr_pool", "ocr_done",
     "patch_begin", "patch_page", "patch_region", "patch_done"}

\* The temporary file is written; the branch on openrouter_api_key calls
\* _run_hybrid or _run_pymupdf in a thread.
ConvBegin ==
    /\ pc = "conv_begin"
    /\ tmp_file' = TRUE
    /\ IF UseHybrid(openrouter_api_key)
       THEN /\ hybrid_calls' =
                 Append(hybrid_calls,
                        [openrouter_api_key |-> openrouter_api_key,
                         ocr_model |-> ocr_model])
            /\ pc' = "hyb_begin"
            /\ UNCHANGED pymupdf_calls
       ELSE /\ pymupdf_calls' =
                 Append(pymupdf_calls, [page_chunks |-> FALSE])
            /\ pc' = "conv_plain"
            /\ UNCHANGED hybrid_calls
    /\ UNCHANGED <<regions, mergeVars, patchVars, ocrVars, hybVars, detVars,
                   callVars, openrouter_api_key, ocr_model, pdf_parses,
                   doc_markdown, conv_return,
                   cacheVars, routeVars>>

\* _run_pymupdf(tmp_path), started by ConvBegin, ends; the finally clause;
\* return result, or the ConversionError of _run_pymupdf
ConvPlain ==
    /\ pc = "conv_plain"
    /\ tmp_file' = FALSE
    /\ IF pdf_parses
       THEN /\ conv_return' =
                 ConvReturned(RunPymupdfWhole(doc_markdown, image_files,
                                              Len(chunks)))
            /\ pc' = "conv_done"
       ELSE /\ conv_return' = ConvRaised(CONVERSION_ERROR_STATUS)
            /\ pc' = "conv_raised"
    /\ UNCHANGED <<regions, mergeVars, patchVars, ocrVars, hybVars, detVars,
                   callVars, openrouter_api_key, ocr_model, pdf_parses,
                   doc_markdown, pymupdf_calls, hybrid_calls,
                   cacheVars, routeVars>>

\* result = await ...to_thread(_run_hybrid, ...); the finally clause;
\* return result, or the ConversionError _run_hybrid raised
ConvHybridEnd ==
    /\ pc \in {"hyb_done", "hyb_raised"}
    /\ tmp_file' = FALSE
    /\ IF hyb_return.raised
       THEN /\ conv_return' = ConvRaised(CONVERSION_ERROR_STATUS)
            /\ pc' = "conv_raised"
       ELSE /\ conv_return' = ConvReturned(hyb_return.value)
            /\ pc' = "conv_done"
    /\ UNCHANGED <<regions, mergeVars, patchVars, ocrVars, hybVars, detVars,
                   callVars, openrouter_api_key, ocr_model, pdf_parses,
                   doc_markdown, pymupdf_calls, hybrid_calls,
                   cacheVars, routeVars>>

ConvTimeoutFallsBack ==
    /\ pc \in ConvThreadPcs
    /\ tmp_file' = FALSE
    /\ conv_return' = ConvReturned(RunPymupdf(chunks, image_files))
    /\ pc' = "conv_done"
    /\ UNCHANGED <<regions, mergeVars, patchVars, ocrVars, hybVars, detVars,
                   callVars, openrouter_api_key, ocr_model, pdf_parses,
                   doc_markdown, pymupdf_calls, hybrid_calls,
                   cacheVars, routeVars>>

\* except asyncio.TimeoutError: raise ConversionTimeoutError(); the finally
\* clause. The thread is not stopped, but nothing reads what it returns.
ConvTimeout ==
    /\ pc \in ConvThreadPcs
    /\ tmp_file' = FALSE
    /\ conv_return' = ConvRaised(CONVERSION_TIMEOUT_STATUS)
    /\ pc' = "conv_raised"
    /\ UNCHANGED <<regions, mergeVars, patchVars, ocrVars, hybVars, detVars,
                   callVars, openrouter_api_key, ocr_model, pdf_parses,
                   doc_markdown, pymupdf_calls, hybrid_calls,
                   cacheVars, routeVars>>

ConvertIdle ==
    /\ tmp_file = FALSE
    /\ pymupdf_calls = <<>>
    /\ hybrid_calls = <<>>
    /\ conv_return = ConvNotReturned

\* convert_pdf is not called; the document is one pymupdf4llm can read.
ConvertUnused ==
    /\ openrouter_api_key = ""
    /\ ocr_model = ""
    /\ pdf_parses = TRUE
    /\ doc_markdown = <<>>
    /\ ConvertIdle

\* ------------------------------------------------------------ DiskCache

SECONDS_PER_DAY == 86400

\* url_to_cache_key: the SHA-256 digest of the url, taken as free of
\* collisions; the digest of a url is written sha256(<url>).
UrlToCacheKey(url) == "sha256(" \o url \o ")"

\* Path.write_text(text): on a POSIX system the characters are written as
\* they are.
WriteText(text) == text

\* Path.read_text(): universal newlines; "\r\n" and "\r" are read as "\n".
RECURSIVE ReadText(_)
ReadText(content) ==
    IF content = <<>> THEN <<>>
    ELSE IF content[1] = "\r"
    THEN <<"\n">> \o ReadText(IF Len(content) >= 2 /\ content[2] = "\n"
                              THEN SubSeq(content, 3, Len(content))
                              ELSE Tail(content))
    ELSE <<content[1]>> \o ReadText(Tail(content))

\* self._ttl_seconds = ttl_days * 86400 if ttl_days > 0 else 0
TtlSeconds(ttl_days) == IF ttl_days > 0 THEN ttl_days * SECONDS_PER_DAY ELSE 0

\* get: None
None == [found |-> FALSE]

\* CacheEntry; images_dir is the path of the images directory of the key.
CacheEntry(markdown, images_dir, page_count, source_url, created_at) ==
    [found |-> TRUE, markdown |-> markdown, images_dir |-> images_dir,
     page_count |-> page_count, source_url |-> source_url,
     created_at |-> created_at]

\* The entry directory put writes: result.md, images/, meta.json. The
\* metadata are a dict of a string, a float and two ints, which json.dumps
\* and json.loads give back as they were.
EntryDir(url, markdown, images, page_count, now) ==
    [result_md |-> WriteText(markdown),
     images |-> images,
     meta |-> [source_url |-> url, created_at |-> now,
               page_count |-> page_count,
               image_count |-> Cardinality(DOMAIN images)]]

\* self._ttl_seconds > 0 and time.time() - created_at > self._ttl_seconds
IsExpired(entry_dir, ttl, now) ==
    ttl > 0 /\ now - entry_dir.meta.created_at > ttl

\* _evict(cache_key): shutil.rmtree(entry_dir) if it exists
Evict(d, cache_key) == [k \in (DOMAIN d) \ {cache_key} |-> d[k]]

\* What get(url) returns.
GetResult(d, url, ttl, now) ==
    LET cache_key == UrlToCacheKey(url)
    IN  IF cache_key \notin DOMAIN d THEN None
        ELSE IF IsExpired(d[cache_key], ttl, now) THEN None
        ELSE CacheEntry(ReadText(d[cache_key].result_md), cache_key,
                        d[cache_key].meta.page_count,
                        d[cache_key].meta.source_url,
                        d[cache_key].meta.created_at)

\* The entry directories get(url) removes, with the time of the removal.
Evictions(d, url, ttl, now) ==
    LET cache_key == UrlToCacheKey(url)
    IN  IF cache_key \in DOMAIN d /\ IsExpired(d[cache_key], ttl, now)
        THEN << [dir |-> d[cache_key], at |-> now] >>
        ELSE <<>>

\* The directory tree after get(url): an expired entry is evicted.
DiskAfterGet(d, url, ttl, now) ==
    LET cache_key == UrlToCacheKey(url)
    IN  IF cache_key \in DOMAIN d /\ IsExpired(d[cache_key], ttl, now)
        THEN Evict(d, cache_key)
        ELSE d

\* The directory tree after put(url, markdown, images, page_count): the
\* entry directory of the url is removed and written anew.
DiskAfterPut(d, url, markdown, images, page_count, now) ==
    LET cache_key == UrlToCacheKey(url)
    IN  [k \in (DOMAIN d) \cup {cache_key} |->
            IF k = cache_key
            THEN EntryDir(url, markdown, images, page_count, now)
            ELSE d[k]]

\* _update_stat(key): the counter read, incremented and written back
UpdateStat(data, key) == [data EXCEPT ![key] = @ + 1]

NoStats == [total_conversions |-> 0, total_reads |-> 0]

\* No call of put or record_read is under way.
NoStatCalls == <<>>

\* A caller between two calls.
IdleStatCall == [pc |-> "idle", key |-> "", data |-> NoStats]

\* stats(): the two counters of the stats file, 0 where the file or the key
\* is missing, and the number of entry directories that hold a meta.json.
Stats(d, data) ==
    [total_conversions |-> data.total_conversions,
     total_reads |-> data.total_reads,
     cached_pdfs |-> Cardinality({k \in DOMAIN d : "meta" \in DOMAIN d[k]})]

CachePcs == {"cache_ready", "cache_put", "cache_got"}

\* cache.put(url, markdown, images, page_count)
CachePut(url, markdown, images, page_count) ==
    /\ pc \in CachePcs
    /\ disk' = DiskAfterPut(disk, url, markdown, images, page_count, clock)
    /\ stats_data' = UpdateStat(stats_data, "total_conversions")
    /\ UNCHANGED <<stat_calls, stat_completed>>
    /\ cache_puts' = Append(cache_puts,
                            [url |-> url, markdown |-> markdown,
                             images |-> images, page_count |-> page_count,
                             now |-> clock])
    /\ pc' = "cache_put"
    /\ UNCHANGED <<regions, mergeVars, patchVars, ocrVars, hybVars, detVars,
                   callVars, convVars, ttl_seconds, clock, get_args,
                   get_result,
                   routeVars>>

\* cache.get(url)
CacheGet(url) ==
    /\ pc \in CachePcs
    /\ get_args' = [url |-> url]
    /\ get_result' = GetResult(disk, url, ttl_seconds, clock)
    /\ disk' = DiskAfterGet(disk, url, ttl_seconds, clock)
    /\ pc' = "cache_got"
    /\ UNCHANGED <<regions, mergeVars, patchVars, ocrVars, hybVars, detVars,
                   callVars, convVars, stats_data, stat_calls, stat_completed, ttl_seconds, clock,
                   cache_puts,
                   routeVars>>

\* Time passes between two calls.
CacheTick(days) ==
    /\ pc \in CachePcs
    /\ clock' = clock + days * SECONDS_PER_DAY
    /\ UNCHANGED <<pc, regions, mergeVars, patchVars, ocrVars, hybVars,
                   detVars, callVars, convVars, disk, stats_data, stat_calls, stat_completed,
                   ttl_seconds, cache_puts, get_args, get_result,
                   routeVars>>

\* Calls of put and record_read by several callers (threads or processes)
\* on one cache directory. No lock is taken anywhere in DiskCache, so the
\* file operations of two calls interleave freely.

\* put(url, markdown, images, page_count) by caller c, up to its call of
\* _increment_counter: the entry directory is written.
StatPutEntry(c, url, markdown, images, page_count) ==
    /\ pc = "stat_calls"
    /\ stat_calls[c].pc = "idle"
    /\ disk' = DiskAfterPut(disk, url, markdown, images, page_count, clock)
    /\ cache_puts' = Append(cache_puts,
                            [url |-> url, markdown |-> markdown,
                             images |-> images, page_count |-> page_count,
                             now |-> clock])
    /\ stat_calls' = [stat_calls EXCEPT ![c] =
                        [pc |-> "update_stat", key |-> "total_conversions",
                         data |-> NoStats]]
    /\ UNCHANGED <<pc, regions, mergeVars, patchVars, ocrVars, hybVars,
                   detVars, callVars, convVars, stats_data, stat_completed,
                   ttl_seconds, clock, get_args, get_result, routeVars>>

\* record_read() by caller c: it calls _update_stat("total_reads").
StatRecordRead(c) ==
    /\ pc = "stat_calls"
    /\ stat_calls[c].pc = "idle"
    /\ stat_calls' = [stat_calls EXCEPT ![c] =
                        [pc |-> "update_stat", key |-> "total_reads",
                         data |-> NoStats]]
    /\ UNCHANGED <<pc, regions, mergeVars, patchVars, ocrVars, hybVars,
                   detVars, callVars, convVars, disk, stats_data,
                   stat_completed, ttl_seconds, clock, cache_puts, get_args,
                   get_result, routeVars>>

\* _update_stat, first half: data = json.loads(stats_path.read_text()),
\* or {} when the file does not exist.
StatRead(c) ==
    /\ pc = "stat_calls"
    /\ stat_calls[c].pc = "update_stat"
    /\ stat_calls' = [stat_calls EXCEPT ![c].pc = "read",
                                        ![c].data = stats_data]
    /\ UNCHANGED <<pc, regions, mergeVars, patchVars, ocrVars, hybVars,
                   detVars, callVars, convVars, disk, stats_data,
                   stat_completed, ttl_seconds, clock, cache_puts, get_args,
                   get_result, routeVars>>

\* _update_stat, second half: data[key] = data.get(key, 0) + 1 and
\* stats_path.write_text(json.dumps(data)); the call returns.
StatWrite(c) ==
    /\ pc = "stat_calls"
    /\ stat_calls[c].pc = "read"
    /\ stats_data' = UpdateStat(stat_calls[c].data, stat_calls[c].key)
    /\ stat_completed' = UpdateStat(stat_completed, stat_calls[c].key)
    /\ stat_calls' = [stat_calls EXCEPT ![c] = IdleStatCall]
    /\ UNCHANGED <<pc, regions, mergeVars, patchVars, ocrVars, hybVars,
                   detVars, callVars, convVars, disk, ttl_seconds, clock,
                   cache_puts, get_args, get_result, routeVars>>

\* A cache directory just created, with expiry disabled, never used.
CacheUnused ==
    /\ disk = <<>>
    /\ stats_data = NoStats
    /\ stat_calls = NoStatCalls
    /\ stat_completed = NoStats
    /\ ttl_seconds = 0
    /\ clock = 0
    /\ cache_puts = <<>>
    /\ get_args = NoArgs
    /\ get_result = None

\* --------------------------------------------------------- download_pdf

MAX_FILE_SIZE_MB == 50

\* Settings.max_file_size_bytes
MaxFileSizeBytes(mb) == mb * 1024 * 1024

\* str(n) for a natural number
RECURSIVE Str(_)
Str(n) ==
    IF n < 10 THEN Digits[n + 1]
    ELSE Str(n \div 10) \o Digits[(n % 10) + 1]

\* A DownloadError with its status code and message; a DownloadResult.
DownloadError(status_code, message) ==
    [ok |-> FALSE, status_code |-> status_code, message |-> message]

DownloadResult(content) == [ok |-> TRUE, content |-> content]

NOT_ACCESSIBLE == "Could not download PDF. It may not be publicly accessible."

\* download_pdf(url, max_size_bytes=, timeout=), given what the request to
\* the source server does: it fails (timeout, connection, other HTTP error)
\* or answers with a status, maybe a Content-Length header (0: absent), and
\* a body.
DownloadPdf(up, max_size) ==
    IF up.failure = "timeout"
    THEN DownloadError(504, "Conversion timed out.")
    ELSE IF up.failure \in {"connect", "http"}
    THEN DownloadError(502, NOT_ACCESSIBLE)
    ELSE IF up.status = 404
    THEN DownloadError(404, "PDF not found at source URL.")
    ELSE IF up.status \in {401, 403}
    THEN DownloadError(502, NOT_ACCESSIBLE)
    ELSE IF up.status >= 400
    THEN DownloadError(502, "Could not download PDF. Upstream returned HTTP "
                            \o Str(up.status) \o ".")
    ELSE IF up.content_length > max_size \/ up.body_len > max_size
    THEN DownloadError(413, "PDF exceeds maximum size of "
                            \o Str(max_size \div (1024 * 1024)) \o "MB.")
    ELSE IF ~up.is_pdf
    THEN DownloadError(400, "URL does not point to a valid PDF.")
    ELSE DownloadResult(up.content)

\* -------------------------------------------------------- convert route

\* ConversionResult.images as the dict of the images, from their names.
ImagesDict(names) == [nm \in names |-> "PNG"]

\* str(exc) of the ConversionError convert_pdf raises
ConversionMessage(status_code) ==
    IF status_code = CONVERSION_TIMEOUT_STATUS
    THEN "Conversion timed out."
    ELSE "Could not parse PDF."

\* How convert_pdf(content, timeout=, cache_key=) can end: no key is given,
\* so it is the plain extraction, its ConversionError, or the timeout.
ConvertPdfOutcomes(content) ==
    {ConvRaised(CONVERSION_TIMEOUT_STATUS)}
      \cup (IF content.parses
            THEN {ConvReturned(RunPymupdfWhole(content.markdown,
                                               content.images,
                                               content.page_count))}
            ELSE {ConvRaised(CONVERSION_ERROR_STATUS)})

\* _error_md(message): f"# Error\n\n{message}"
ErrorMd(message) == <<"# Error", "\n", "\n", message>>

NoHeaders == <<>>

\* _markdown_response(content, status_code, headers)
MarkdownResponse(content, status_code, headers) ==
    [status_code |-> status_code, body |-> content, headers |-> headers]

NoResponse == MarkdownResponse(<<>>, 0, NoHeaders)

ErrorResponseOk(status_code, message) ==
    MarkdownResponse(ErrorMd(message), 200, NoHeaders)

\* return _markdown_response(_error_md(str(exc)), status_code=exc.status_code)
ErrorResponse(status_code, message) ==
    MarkdownResponse(ErrorMd(message), status_code, NoHeaders)

\* The response for a cache entry.
CachedResponse(entry, source_url) ==
    MarkdownResponse(entry.markdown, 200,
                     [x_source_url |-> source_url, x_cached |-> "true",
                      x_conversion_time_ms |-> "0",
                      x_page_count |-> Str(entry.page_count)])

\* The response for a fresh conversion.
FreshResponse(markdown, source_url, elapsed_ms, page_count) ==
    MarkdownResponse(markdown, 200,
                     [x_source_url |-> source_url, x_cached |-> "false",
                      x_conversion_time_ms |-> Str(elapsed_ms),
                      x_page_count |-> Str(page_count)])

\* normalize_url(host, path)
NormalizeUrl(host, path) == "https://" \o host \o "/" \o path

\* markdown.replace(image_name, f"/images/{cache_key}/{image_name}") for
\* every image; an image name is one element of the text.
RewriteImagePaths(markdown, names, cache_key) ==
    [k \in 1..Len(markdown) |->
        IF markdown[k] \in names
        THEN "/images/" \o cache_key \o "/" \o markdown[k]
        ELSE markdown[k]]

ChecksCacheNever(refresh) == FALSE

\* if not refresh:
ChecksCache(refresh) == ~refresh

\* asyncio.Lock(): not locked, nobody waiting. A waiter is the request and
\* whether its future is done (it was woken).
NewLock == [locked |-> FALSE, waiters |-> <<>>]

\* Lock.acquire returns at once: not locked and nobody waiting
CanAcquireNow(lk) == ~lk.locked /\ lk.waiters = <<>>

\* Lock.release(): unlocked, and the first waiter woken if it is not yet
LockReleased(lk) ==
    [locked |-> FALSE,
     waiters |-> IF lk.waiters = <<>> THEN <<>>
                 ELSE [lk.waiters EXCEPT ![1].done = TRUE]]

\* The waiter of request r leaves the queue and holds the lock.
LockTakenBy(lk, r) ==
    [locked |-> TRUE,
     waiters |-> SelectSeq(lk.waiters, LAMBDA w : w.r /= r)]

IsWoken(lk, r) ==
    \E i \in 1..Len(lk.waiters) : lk.waiters[i].r = r /\ lk.waiters[i].done

NoContent == [parses |-> FALSE, markdown |-> <<>>, images |-> {},
              page_count |-> 0]

NoError == [status_code |-> 0, kind |-> ""]

\* A request not yet received. The fields from started_at on are history.
IdleRequest ==
    [pc |-> "idle", host |-> "", path |-> "", refresh |-> FALSE,
     source_url |-> "", lock |-> 0, content |-> NoContent,
     resp |-> NoResponse, error |-> NoError, started_at |-> 0,
     after_success |-> FALSE, puts_seen |-> 0, seen_dir |-> <<>>,
     downloaded |-> FALSE, converted |-> FALSE, puts |-> 0,
     evictions |-> <<>>]

\* A request for the same url has been answered with 200.
Succeeded(url) ==
    \E r \in DOMAIN req :
        /\ req[r].pc = "done"
        /\ req[r].source_url = url
        /\ req[r].resp.status_code = 200

\* The route up to its first await: the path is split, the source url
\* built, the cache looked up, the lock of the url found or created and
\* taken if it is free, the cache looked up again, the download started.
RouteStart(r, host, path, refresh) ==
    /\ req[r].pc = "idle"
    /\ LET source_url == NormalizeUrl(host, path)
           cache_key == UrlToCacheKey(source_url)
           entry == GetResult(disk, source_url, ttl_seconds, clock)
           isNew == cache_key \notin DOMAIN conversion_locks
           lid == IF isNew THEN Len(lock_objs) + 1
                  ELSE conversion_locks[cache_key]
           objs == IF isNew THEN Append(lock_objs, NewLock) ELSE lock_objs
           begun == [req[r] EXCEPT
                       !.host = host, !.path = path, !.refresh = refresh,
                       !.source_url = source_url, !.started_at = clock,
                       !.after_success = Succeeded(source_url),
                       !.puts_seen = Len(cache_puts),
                       !.seen_dir = IF cache_key \in DOMAIN disk
                                    THEN <<disk[cache_key]>> ELSE <<>>,
                       !.evictions =
                          IF ChecksCache(refresh)
                          THEN Evictions(disk, source_url, ttl_seconds, clock)
                          ELSE <<>>]
       IN  IF host = ""
           THEN /\ req' = [req EXCEPT ![r] =
                             [IdleRequest EXCEPT
                                !.pc = "done",
                                !.resp = ErrorResponse(400,
                                   "URL does not point to a valid PDF.")]]
                /\ UNCHANGED <<disk, conversion_locks, lock_objs>>
           ELSE IF ChecksCache(refresh) /\ entry.found
           THEN /\ req' = [req EXCEPT ![r] =
                             [begun EXCEPT
                                !.pc = "done",
                                !.resp = CachedResponse(entry, source_url)]]
                /\ UNCHANGED <<disk, conversion_locks, lock_objs>>
           ELSE /\ disk' = IF ChecksCache(refresh)
                           THEN DiskAfterGet(disk, source_url, ttl_seconds,
                                             clock)
                           ELSE disk
                /\ conversion_locks' =
                     [k \in (DOMAIN conversion_locks) \cup {cache_key} |->
                         IF k = cache_key THEN lid ELSE conversion_locks[k]]
                /\ IF CanAcquireNow(objs[lid])
                   THEN /\ lock_objs' = [objs EXCEPT ![lid].locked = TRUE]
                        /\ req' = [req EXCEPT ![r] =
                                     [begun EXCEPT !.pc = "downloading",
                                                   !.lock = lid,
                                                   !.downloaded = TRUE]]
                   ELSE /\ lock_objs' =
                             [objs EXCEPT ![lid].waiters =
                                 Append(@, [r |-> r, done |-> FALSE])]
                        /\ req' = [req EXCEPT ![r] =
                                     [begun EXCEPT !.pc = "waiting",
                                                   !.lock = lid]]
    /\ UNCHANGED <<pc, regions, mergeVars, patchVars, ocrVars, hybVars,
                   detVars, callVars, convVars, stats_data, stat_calls, stat_completed, ttl_seconds,
                   clock, cache_puts, get_args, get_result, max_size_bytes>>

\* A request woken in Lock.acquire takes the lock; the cache is looked up
\* again, and the request answers from it or starts the download.
RouteAcquired(r) ==
    /\ req[r].pc = "waiting"
    /\ IsWoken(lock_objs[req[r].lock], r)
    /\ LET lid == req[r].lock
           held == [lock_objs EXCEPT ![lid] = LockTakenBy(@, r)]
           entry == GetResult(disk, req[r].source_url, ttl_seconds, clock)
       IN  IF ChecksCache(req[r].refresh)
           THEN /\ disk' = DiskAfterGet(disk, req[r].source_url, ttl_seconds,
                                        clock)
                /\ IF entry.found
                   THEN /\ lock_objs' =
                             [held EXCEPT ![lid] = LockReleased(@)]
                        /\ req' = [req EXCEPT
                                     ![r].pc = "done",
                                     ![r].resp =
                                        CachedResponse(entry,
                                                       req[r].source_url)]
                   ELSE /\ lock_objs' = held
                        /\ req' = [req EXCEPT
                                     ![r].pc = "downloading",
                                     ![r].downloaded = TRUE,
                                     ![r].evictions =
                                        @ \o Evictions(disk,
                                                       req[r].source_url,
                                                       ttl_seconds, clock)]
           ELSE /\ lock_objs' = held
                /\ req' = [req EXCEPT ![r].pc = "downloading",
                                      ![r].downloaded = TRUE]
                /\ UNCHANGED disk
    /\ UNCHANGED <<pc, regions, mergeVars, patchVars, ocrVars, hybVars,
                   detVars, callVars, convVars, stats_data, stat_calls, stat_completed, ttl_seconds,
                   clock, cache_puts, get_args, get_result,
                   conversion_locks, max_size_bytes>>

\* download_pdf ends: its DownloadError is answered and the lock released
\* by the return, or convert_pdf is started on the content.
RouteDownloaded(r, up) ==
    /\ req[r].pc = "downloading"
    /\ LET download_result == DownloadPdf(up, max_size_bytes)
       IN  IF download_result.ok
           THEN /\ req' = [req EXCEPT
                             ![r].pc = "converting",
                             ![r].content = download_result.content,
                             ![r].converted = TRUE]
                /\ UNCHANGED lock_objs
           ELSE /\ req' = [req EXCEPT
                             ![r].pc = "done",
                             ![r].error =
                                [status_code |-> download_result.status_code,
                                 kind |-> "download"],
                             ![r].resp =
                                ErrorResponse(download_result.status_code,
                                              download_result.message)]
                /\ lock_objs' =
                     [lock_objs EXCEPT ![req[r].lock] = LockReleased(@)]
    /\ UNCHANGED <<pc, regions, mergeVars, patchVars, ocrVars, hybVars,
                   detVars, callVars, convVars, cacheVars, conversion_locks,
                   max_size_bytes>>

\* convert_pdf ends: its ConversionError is answered and the lock released
\* by the return; or the image paths are rewritten, the result is put in
\* the cache, the lock is released and, not being locked, removed from
\* _conversion_locks, and the markdown is answered.
RouteConverted(r, conversion, elapsed_ms) ==
    /\ req[r].pc = "converting"
    /\ conversion \in ConvertPdfOutcomes(req[r].content)
    /\ lock_objs' = [lock_objs EXCEPT ![req[r].lock] = LockReleased(@)]
    /\ IF conversion.raised
       THEN /\ req' = [req EXCEPT
                         ![r].pc = "done",
                         ![r].error = [status_code |-> conversion.status,
                                       kind |-> "conversion"],
                         ![r].resp =
                            ErrorResponse(conversion.status,
                                          ConversionMessage(conversion.status))]
            /\ UNCHANGED <<disk, stats_data, stat_calls, stat_completed, cache_puts, conversion_locks>>
       ELSE LET source_url == req[r].source_url
                cache_key == UrlToCacheKey(source_url)
                markdown == RewriteImagePaths(conversion.value.markdown,
                                              conversion.value.images,
                                              cache_key)
                images == ImagesDict(conversion.value.images)
                page_count == conversion.value.page_count
            IN  /\ disk' = DiskAfterPut(disk, source_url, markdown, images,
                                        page_count, clock)
                /\ stats_data' = UpdateStat(stats_data, "total_conversions")
                /\ UNCHANGED <<stat_calls, stat_completed>>
                /\ cache_puts' =
                     Append(cache_puts,
                            [url |-> source_url, markdown |-> markdown,
                             images |-> images, page_count |-> page_count,
                             now |-> clock])
                /\ conversion_locks' =
                     [k \in (DOMAIN conversion_locks) \ {cache_key} |->
                         conversion_locks[k]]
                /\ req' = [req EXCEPT
                             ![r].pc = "done",
                             ![r].puts = @ + 1,
                             ![r].resp = FreshResponse(markdown, source_url,
                                                       elapsed_ms, page_count)]
    /\ UNCHANGED <<pc, regions, mergeVars, patchVars, ocrVars, hybVars,
                   detVars, callVars, convVars, ttl_seconds, clock, get_args,
                   get_result, max_size_bytes>>

\* Time passes while the server runs.
RouteTick(days) ==
    /\ clock' = clock + days * SECONDS_PER_DAY
    /\ UNCHANGED <<pc, regions, mergeVars, patchVars, ocrVars, hybVars,
                   detVars, callVars, convVars, disk, stats_data, stat_calls, stat_completed,
                   ttl_seconds, cache_puts, get_args, get_result, routeVars>>

\* The server receives no request.
RouteUnused ==
    /\ req = <<>>
    /\ conversion_locks = <<>>
    /\ lock_objs = <<>>
    /\ max_size_bytes = 0

\* --------------------------------------------------------- is_math_font

\* MATH_FONT_RE: the alternatives of the group after ^
MATH_FONT_PREFIXES ==
    { <<"C", "M", "M", "I">>, <<"C", "M", "S", "Y">>, <<"C", "M", "E", "X">>,
      <<"C", "M", "R">>, <<"C", "M", "S", "S">>, <<"M", "S", "B", "M">>,
      <<"E", "U", "F", "M">>, <<"M", "S", "A", "M">> }

\* re.IGNORECASE on the letters of the prefixes: the ASCII lower-case letter
\* and, for S and I, the letters that Unicode case rules equate with them
\* (dotless i, dotted capital I, long s), written by their code points.
IgnoreCase(c) ==
    CASE c \in {"c", "C"} -> "C"
      [] c \in {"m", "M"} -> "M"
      [] c \in {"i", "I", "U+0131", "U+0130"} -> "I"
      [] c \in {"s", "S", "U+017F"} -> "S"
      [] c \in {"y", "Y"} -> "Y"
      [] c \in {"e", "E"} -> "E"
      [] c \in {"x", "X"} -> "X"
      [] c \in {"r", "R"} -> "R"
      [] c \in {"b", "B"} -> "B"
      [] c \in {"u", "U"} -> "U"
      [] c \in {"f", "F"} -> "F"
      [] c \in {"a", "A"} -> "A"
      [] OTHER -> c

IsMathFontAnywhere(font_name) ==
    \E pre \in MATH_FONT_PREFIXES, o \in 0..Len(font_name) :
        /\ o + Len(pre) <= Len(font_name)
        /\ \A k \in 1..Len(pre) : IgnoreCase(font_name[o + k]) = pre[k]

\* bool(MATH_FONT_RE.search(font_name))
IsMathFont(font_name) ==
    \E pre \in MATH_FONT_PREFIXES :
        /\ Len(pre) <= Len(font_name)
        /\ \A k \in 1..Len(pre) : IgnoreCase(font_name[k]) = pre[k]

\* is_math_font(font_name)
FontCall ==
    /\ pc = "font_call"
    /\ call_result' = IsMathFont(call_args.font_name)
    /\ pc' = "font_done"
    /\ UNCHANGED <<regions, mergeVars, patchVars, ocrVars, hybVars, detVars,
                   call_args, convVars, cacheVars, routeVars>>

\* ---------------------------------------------------- _extract_raw_chars

\* span.get("text", ""), span.get("font", ""), span.get("flags", 0)
SpanText(span) == IF "text" \in DOMAIN span THEN span.text ELSE <<>>

SpanFont(span) == IF "font" \in DOMAIN span THEN span.font ELSE <<>>

SpanFlags(span) == IF "flags" \in DOMAIN span THEN span.flags ELSE 0

\* The characters of a text that are not whitespace, in order.
NonSpace(text) == SelectSeq(text, LAMBDA ch : ch \notin Whitespace)

RECURSIVE ExtractRawChars(_)
ExtractRawChars(spans) ==
    IF spans = <<>>
    THEN <<>>
    ELSE NonSpace(SpanText(Head(spans))) \o ExtractRawChars(Tail(spans))

\* --------------------------------------------------- _has_math_structure

HasMathStructure(spans) ==
    LET has_super == \E k \in 1..Len(spans) : SpanFlags(spans[k]) % 2 = 1
        fonts == {SpanFont(spans[k]) : k \in 1..Len(spans)}
        has_mixed_fonts == Cardinality(fonts) > 1
    IN  has_super \/ has_mixed_fonts

\* --------------------------------------------------------- _build_region

MIN_FORMULA_CHARS == 3

KeepsGroupMinCharsOnly(math_spans) ==
    Len(ExtractRawChars(math_spans)) >= MIN_FORMULA_CHARS

\* The filter at the head of _build_region: FALSE where it returns None.
KeepsGroup(math_spans) ==
    LET raw_chars == ExtractRawChars(math_spans)
    IN  ~(/\ Len(raw_chars) < MIN_FORMULA_CHARS
          /\ (Len(raw_chars) < 2 \/ ~HasMathStructure(math_spans)))

IsBlankSpan(span) == Strip(SpanText(span)) = <<>>

\* while content_spans and not content_spans[0]...strip(): drop it
RECURSIVE DropLeadingBlank(_)
DropLeadingBlank(spans) ==
    IF spans /= <<>> /\ IsBlankSpan(Head(spans))
    THEN DropLeadingBlank(Tail(spans))
    ELSE spans

RECURSIVE DropTrailingBlank(_)
DropTrailingBlank(spans) ==
    IF spans /= <<>> /\ IsBlankSpan(spans[Len(spans)])
    THEN DropTrailingBlank(SubSeq(spans, 1, Len(spans) - 1))
    ELSE spans

BboxSpansKeepsBlanks(math_spans) == math_spans

\* bbox_spans = content_spans if content_spans else math_spans
BboxSpans(math_spans) ==
    LET content_spans == DropTrailingBlank(DropLeadingBlank(math_spans))
    IN  IF content_spans /= <<>> THEN content_spans ELSE math_spans

\* union_rect: the union of the boxes of the spans (boxes are not empty)
RECURSIVE UnionRect(_)
UnionRect(spans) ==
    IF Len(spans) = 1
    THEN Head(spans).bbox
    ELSE LET u == UnionRect(SubSeq(spans, 1, Len(spans) - 1))
             r == spans[Len(spans)].bbox
         IN  <<Min2(u[1], r[1]), Min2(u[2], r[2]),
               Max2(u[3], r[3]), Max2(u[4], r[4])>>

\* len(non_math_text): the stripped texts of the non-math spans of the line
RECURSIVE NonMathTextLen(_)
NonMathTextLen(line_spans) ==
    IF line_spans = <<>>
    THEN 0
    ELSE (IF IsMathFont(SpanFont(Head(line_spans)))
          THEN 0
          ELSE Len(Strip(SpanText(Head(line_spans)))))
         + NonMathTextLen(Tail(line_spans))

\* formula_width_ratio > 0.3 and len(non_math_text) < 5; the ratio is
\* compared by cross-multiplication and is 0 when page_width is not positive.
IsDisplay(union_rect, width, line_spans) ==
    /\ width > 0
    /\ 10 * (union_rect[3] - union_rect[1]) > 3 * width
    /\ NonMathTextLen(line_spans) < 5

\* _build_region: the empty list where it returns None, else the region.
BuildRegion(pnum, math_spans, width, line_spans) ==
    IF ~KeepsGroup(math_spans)
    THEN <<>>
    ELSE LET union_rect == UnionRect(BboxSpans(math_spans))
         IN  << FormulaRegion(pnum, union_rect,
                              IsDisplay(union_rect, width, line_spans),
                              math_spans, ExtractRawChars(math_spans), <<>>) >>

\* ------------------------------------------------ detect_formula_regions

TEXT_BLOCK == 0

BlockLines(block) == IF "lines" \in DOMAIN block THEN block.lines ELSE <<>>

LineSpans(line) == IF "spans" \in DOMAIN line THEN line.spans ELSE <<>>

CurrentLineSpans == LineSpans(BlockLines(page_blocks[block_idx])[line_idx])

\* text_dict = ...; regions = []
DetBegin ==
    /\ pc = "det_begin"
    /\ det_regions' = <<>>
    /\ block_idx' = 1
    /\ pc' = "det_block"
    /\ UNCHANGED <<regions, mergeVars, patchVars, ocrVars, hybVars,
                   page_blocks, page_width, page_number, line_idx, span_idx,
                   current_math_spans, groups, callVars, convVars, cacheVars,
                   routeVars>>

\* for block in blocks: if block.get("type") != 0: continue
DetBlock ==
    /\ pc = "det_block"
    /\ block_idx <= Len(page_blocks)
    /\ IF "type" \in DOMAIN page_blocks[block_idx]
          /\ page_blocks[block_idx].type = TEXT_BLOCK
       THEN /\ line_idx' = 1
            /\ pc' = "det_line"
            /\ UNCHANGED block_idx
       ELSE /\ block_idx' = block_idx + 1
            /\ UNCHANGED <<pc, line_idx>>
    /\ UNCHANGED <<regions, mergeVars, patchVars, ocrVars, hybVars,
                   page_blocks, page_width, page_number, span_idx,
                   current_math_spans, det_regions, groups, callVars, convVars,
                   cacheVars, routeVars>>

\* for line in block.get("lines", []): current_math_spans = []
DetLine ==
    /\ pc = "det_line"
    /\ IF line_idx <= Len(BlockLines(page_blocks[block_idx]))
       THEN /\ current_math_spans' = <<>>
            /\ span_idx' = 1
            /\ pc' = "det_span"
            /\ UNCHANGED block_idx
       ELSE /\ block_idx' = block_idx + 1
            /\ pc' = "det_block"
            /\ UNCHANGED <<current_math_spans, span_idx>>
    /\ UNCHANGED <<regions, mergeVars, patchVars, ocrVars, hybVars,
                   page_blocks, page_width, page_number, line_idx,
                   det_regions, groups, callVars, convVars, cacheVars,
                   routeVars>>

\* One iteration of: for span in line.get("spans", [])
DetSpan ==
    /\ pc = "det_span"
    /\ span_idx <= Len(CurrentLineSpans)
    /\ LET span == CurrentLineSpans[span_idx]
           built == BuildRegion(page_number, current_math_spans, page_width,
                                CurrentLineSpans)
       IN  IF IsMathFont(SpanFont(span))
           THEN /\ current_math_spans' = Append(current_math_spans, span)
                /\ UNCHANGED <<det_regions, groups>>
           ELSE IF current_math_spans /= <<>>
                THEN /\ det_regions' = det_regions \o built
                     /\ groups' = Append(groups, [spans |-> current_math_spans,
                                                  built |-> built])
                     /\ current_math_spans' = <<>>
                ELSE UNCHANGED <<current_math_spans, det_regions, groups>>
    /\ span_idx' = span_idx + 1
    /\ UNCHANGED <<pc, regions, mergeVars, patchVars, ocrVars, hybVars,
                   page_blocks, page_width, page_number, block_idx, line_idx, callVars, convVars,
                   cacheVars, routeVars>>

\* Flush remaining math spans at end of line
DetLineEnd ==
    /\ pc = "det_span"
    /\ span_idx > Len(CurrentLineSpans)
    /\ LET built == BuildRegion(page_number, current_math_spans, page_width,
                                CurrentLineSpans)
       IN  IF current_math_spans /= <<>>
           THEN /\ det_regions' = det_regions \o built
                /\ groups' = Append(groups, [spans |-> current_math_spans,
                                             built |-> built])
           ELSE UNCHANGED <<det_regions, groups>>
    /\ line_idx' = line_idx + 1
    /\ pc' = "det_line"
    /\ UNCHANGED <<regions, mergeVars, patchVars, ocrVars, hybVars,
                   page_blocks, page_width, page_number, block_idx, span_idx,
                   current_math_spans, callVars, convVars, cacheVars,
                   routeVars>>

\* return _merge_nearby_regions(regions): the call
DetMergeCall ==
    /\ pc = "det_block"
    /\ block_idx > Len(page_blocks)
    /\ regions' = det_regions
    /\ pc' = "merge_begin"
    /\ UNCHANGED <<mergeVars, patchVars, ocrVars, hybVars, detVars, callVars,
                   convVars, cacheVars, routeVars>>

DetectIdle ==
    /\ block_idx = 0
    /\ line_idx = 0
    /\ span_idx = 0
    /\ current_math_spans = <<>>
    /\ det_regions = <<>>
    /\ groups = <<>>

\* Everything of detect_formula_regions unused (the function is not called).
DetectUnused ==
    /\ page_blocks = <<>>
    /\ page_width = 0
    /\ page_number = 0
    /\ DetectIdle

\* ---- inputs of the merge specification

MaxMergeRegions == 3

MergePages == {0, 1}

\* Boxes (x0, y0, x1, y1) chosen so that consecutive pairs show a vertical
\* overlap ratio above, at and below one half, a zero height, and a gap
\* below, at and above the threshold.
MergeBoxes ==
    { <<0, 0, 2, 4>>, <<3, 2, 5, 6>>, <<4, 1, 6, 3>>,
      <<5, 0, 7, 4>>, <<3, 3, 5, 7>>, <<9, 3, 9, 3>> }

Letters == <<"a", "b", "c", "d", "e", "f", "g", "h">>

LetterOf(i) == Letters[((i - 1) % Len(Letters)) + 1]

\* The i-th input region: one span holding its two raw characters.
InputRegion(i, page_num, bbox, is_display) ==
    FormulaRegion(page_num, bbox, is_display,
                  << [text |-> <<LetterOf(i), "2">>, font |-> "CMMI10",
                      flags |-> 0, bbox |-> bbox] >>,
                  <<LetterOf(i), "2">>, <<>>)

InitMerge ==
    /\ pc = "merge_begin"
    /\ \E n \in 0..MaxMergeRegions :
         \E ps \in [1..n -> MergePages], bs \in [1..n -> MergeBoxes],
            ds \in [1..n -> BOOLEAN] :
            regions = [i \in 1..n |-> InputRegion(i, ps[i], bs[i], ds[i])]
    /\ MergeIdle
    /\ page_markdowns = <<>>
    /\ PatchIdle
    /\ OcrUnused
    /\ HybridUnused
    /\ DetectUnused
    /\ CallUnused
    /\ ConvertUnused
    /\ CacheUnused
    /\ RouteUnused

NextMerge == MergeBegin \/ MergeIter \/ MergeEnd

SpecMerge == InitMerge /\ [][NextMerge]_vars

\* ---- inputs of the patch specification

MaxPatchPages == 2

MaxPatchRegions == 2

\* Page texts: a formula alone, a formula with interleaved formatting that
\* occurs twice, a character that is no filler between the anchors, the
\* anchors in the wrong order, and an empty page.
PatchTexts ==
    { <<"x", "y", "x">>,
      <<"a", "_", "x", "_", " ", "y", " ", "x", "y">>,
      <<"x", "a", "y">>,
      <<"y", "x">>,
      <<>> }

PatchRawChars == { <<"x">>, <<"x", "y">>, <<"x", "y", "x">> }

PatchLatex == { <<>>, <<" ">>, <<" ", "x", "y", "\n">>, <<"z">> }

PatchInputRegion(page_num, is_display, raw_chars, latex) ==
    FormulaRegion(page_num, <<0, 0, 100, 10>>, is_display, <<>>, raw_chars, latex)

PatchInputRegions ==
    { PatchInputRegion(p, d, rc, lx) :
        p \in 0..(MaxPatchPages - 1), d \in BOOLEAN,
        rc \in PatchRawChars, lx \in PatchLatex }

InitPatch ==
    /\ pc = "patch_begin"
    /\ \E n \in 1..MaxPatchPages : page_markdowns \in [1..n -> PatchTexts]
    /\ \E n \in 0..MaxPatchRegions : regions \in [1..n -> PatchInputRegions]
    /\ PatchIdle
    /\ MergeIdle
    /\ OcrUnused
    /\ HybridUnused
    /\ DetectUnused
    /\ CallUnused
    /\ ConvertUnused
    /\ CacheUnused
    /\ RouteUnused

NextPatch == PatchBegin \/ PatchPage \/ PatchRegion \/ PatchPageEnd \/ PatchEnd

SpecPatch == InitPatch /\ [][NextPatch]_vars

\* ---- inputs of the OCR specification

MaxOcrRegions == 3

MaxBatchSize == 2

MaxWorkers == 2

OcrPages == {0, 1}

OcrPageImages == { [p \in ps |-> PageImage] : ps \in {{}, {0}, {0, 1}} }

OcrOldLatex == { <<>>, <<"o">> }

OcrInputRegion(i, page_num, latex) ==
    FormulaRegion(page_num, <<10 * i, 10, 10 * i + 8, 20>>, FALSE, <<>>,
                  <<LetterOf(i), "2">>, latex)

InitOcr ==
    /\ pc = "ocr_begin"
    /\ \E n \in 0..MaxOcrRegions :
         \E ps \in [1..n -> OcrPages], ls \in [1..n -> OcrOldLatex] :
            regions = [i \in 1..n |-> OcrInputRegion(i, ps[i], ls[i])]
    /\ ocr_input = regions
    /\ page_images \in OcrPageImages
    /\ api_key \in {"", "sk-or-test"}
    /\ batch_size \in 1..MaxBatchSize
    /\ max_workers \in 1..MaxWorkers
    /\ OcrIdle
    /\ page_markdowns = <<>>
    /\ PatchIdle
    /\ MergeIdle
    /\ HybridUnused
    /\ DetectUnused
    /\ CallUnused
    /\ ConvertUnused
    /\ CacheUnused
    /\ RouteUnused

NextOcr ==
    \/ OcrBegin
    \/ OcrPrepare
    \/ OcrBatchStart
    \/ OcrBatchFails
    \/ OcrBatchReturns
    \/ OcrCollect
    \/ OcrWriteBack

SpecOcr == InitOcr /\ [][NextOcr]_vars

\* ---- inputs of the hybrid specification

MaxHybridPages == 2

HybridImages == {"fig.png"}

\* Page texts: a bare formula; a picture and a formula with markdown
\* emphasis; no formula.
HybridTexts ==
    { <<"x", "y">>,
      <<ImagePath("fig.png"), " ", "_", "x", "_", "y">>,
      <<"a">> }

DetectedRegion(p, is_display, raw_chars) ==
    FormulaRegion(p, <<10, 10, 18, 20>>, is_display, <<>>, raw_chars, <<>>)

\* What detect_formula_regions may return for page p: nothing, one inline
\* region, or a display region followed by a longer inline one.
DetectChoices(p) ==
    { <<>>,
      << DetectedRegion(p, FALSE, <<"x", "y">>) >>,
      << DetectedRegion(p, TRUE, <<"x">>),
         DetectedRegion(p, FALSE, <<"x", "y">>) >> }

InitHybrid ==
    /\ pc = "hyb_begin"
    /\ \E n \in 0..MaxHybridPages :
         /\ chunks \in [1..n -> HybridTexts]
         /\ detected \in [1..n -> UNION {DetectChoices(p) : p \in 0..(n - 1)}]
         /\ \A p \in 1..n : detected[p] \in DetectChoices(p - 1)
    /\ image_files \in SUBSET HybridImages
    /\ regions = <<>>
    /\ page_markdowns = <<>>
    /\ PatchIdle
    /\ MergeIdle
    /\ page_images = <<>>
    /\ api_key = "sk-or-test"
    /\ batch_size = DEFAULT_BATCH_SIZE
    /\ max_workers = DEFAULT_MAX_WORKERS
    /\ ocr_input = <<>>
    /\ OcrIdle
    /\ HybridIdle
    /\ DetectUnused
    /\ CallUnused
    /\ ConvertUnused
    /\ CacheUnused
    /\ RouteUnused

NextHybrid ==
    \/ HybBegin
    \/ HybDetectPage
    \/ HybDetectEnd
    \/ HybRender
    \/ NextOcr
    \/ HybPatchCall
    \/ NextPatch
    \/ HybPatchReturn
    \/ HybFormulaOcrRaises
    \/ HybExcept
    \/ HybReturn

SpecHybrid == InitHybrid /\ [][NextHybrid]_vars

\* ---- inputs of the specification of steps 3 and 4 of _run_formula_ocr:
\* ocr_formulas on the detected regions and the rendered pages, then
\* patch_markdown on the regions it returned.  The batch size and the pool
\* size are drawn from small sets so that several batches are in flight.

StepsPageMarkdowns ==
    << <<"a", "2", " ", "b", "2">>, <<"c", "2", "a", "2">> >>

InitSteps ==
    /\ pc = "ocr_begin"
    /\ \E n \in 1..MaxOcrRegions :
         \E ps \in [1..n -> OcrPages] :
            regions = [i \in 1..n |-> OcrInputRegion(i, ps[i], <<>>)]
    /\ ocr_input = regions
    /\ page_images = [p \in PagesWithFormulas(regions) |-> PageImage]
    /\ api_key = "sk-or-test"
    /\ batch_size \in 1..MaxBatchSize
    /\ max_workers \in 1..MaxWorkers
    /\ OcrIdle
    /\ page_markdowns = StepsPageMarkdowns
    /\ PatchIdle
    /\ MergeIdle
    /\ HybridUnused
    /\ DetectUnused
    /\ CallUnused
    /\ ConvertUnused
    /\ CacheUnused
    /\ RouteUnused

NextSteps ==
    \/ NextOcr
    \/ HybPatchCall
    \/ NextPatch

SpecSteps == InitSteps /\ [][NextSteps]_vars

\* ---- inputs of the detection specification

MaxBlocks == 2

MaxLineSpans == 3

CMMI10 == <<"C", "M", "M", "I", "1", "0">>

LowerCmr10 == <<"c", "m", "r", "1", "0">>

SFRM1000 == <<"S", "F", "R", "M", "1", "0", "0", "0">>

\* The kinds of span of the inputs: an italic variable, a superscript of two
\* characters, three characters in a second math font (lower-case name) with
\* a blank inside, a
\* blank math span, a word of body text, and a math span without text.
SpanKinds ==
    { [text |-> <<"x">>, font |-> CMMI10, flags |-> 2],
      [text |-> <<"2", "n">>, font |-> CMMI10, flags |-> 1],
      [text |-> <<"+", " ", "y", "z">>, font |-> LowerCmr10, flags |-> 0],
      [text |-> <<" ">>, font |-> CMMI10, flags |-> 2],
      [text |-> <<"t", "h", "e">>, font |-> SFRM1000, flags |-> 0],
      [font |-> CMMI10, flags |-> 2] }

\* The k-th span of the line of block b: 2 points wide, 4 high, spans of a
\* line side by side, blocks 10 points apart.
SpanBox(b, k) == <<2 * (k - 1), 10 * (b - 1), 2 * k, 10 * (b - 1) + 4>>

PlacedSpan(kind, b, k) ==
    IF "text" \in DOMAIN kind
    THEN [text |-> kind.text, font |-> kind.font, flags |-> kind.flags,
          bbox |-> SpanBox(b, k)]
    ELSE [font |-> kind.font, flags |-> kind.flags, bbox |-> SpanBox(b, k)]

ImageBlock == [type |-> 1]

\* A text block of one line with the given kinds of span.
TextBlock(kinds, b) ==
    [type |-> TEXT_BLOCK,
     lines |-> << [spans |-> [k \in 1..Len(kinds) |-> PlacedSpan(kinds[k], b, k)]] >>]

LineKinds == UNION { [1..n -> SpanKinds] : n \in 0..MaxLineSpans }

DetectPageWidth == 12

InitDetect ==
    /\ pc = "det_begin"
    /\ \E n \in 0..MaxBlocks :
         \E imgs \in [1..n -> BOOLEAN], ks \in [1..n -> LineKinds] :
            /\ \A b \in 1..n : imgs[b] => ks[b] = <<>>
            /\ page_blocks = [b \in 1..n |-> IF imgs[b] THEN ImageBlock
                                                      ELSE TextBlock(ks[b], b)]
    /\ page_width = DetectPageWidth
    /\ page_number = 0
    /\ DetectIdle
    /\ regions = <<>>
    /\ MergeIdle
    /\ page_markdowns = <<>>
    /\ PatchIdle
    /\ OcrUnused
    /\ HybridUnused
    /\ CallUnused
    /\ ConvertUnused
    /\ CacheUnused
    /\ RouteUnused

NextDetect ==
    \/ DetBegin
    \/ DetBlock
    \/ DetLine
    \/ DetSpan
    \/ DetLineEnd
    \/ DetMergeCall
    \/ NextMerge

SpecDetect == InitDetect /\ [][NextDetect]_vars

\* ---- inputs of the pattern specification

MaxRawLen == 3

MaxPieces == 3

PatternRawChars == UNION { [1..n -> {"a", "*"}] : n \in 0..MaxRawLen }

\* A run of n filler characters.
FillerText(n, ch) == [k \in 1..n |-> ch]

\* A piece of text: one character, then no filler, one filler, MD_FILLER_MAX
\* fillers or one more than that.
Pieces ==
    { <<c>> \o f :
        c \in {"a", "*", "q"},
        f \in { <<>>, <<" ">>, <<"[">>, FillerText(MD_FILLER_MAX, "_"),
                FillerText(MD_FILLER_MAX + 1, "_") } }

RECURSIVE Flatten(_)
Flatten(seqs) == IF seqs = <<>> THEN <<>> ELSE Head(seqs) \o Flatten(Tail(seqs))

InitPattern ==
    /\ pc = "pattern_call"
    /\ \E raw \in PatternRawChars, n \in 0..MaxPieces :
         \E ps \in [1..n -> Pieces] :
            call_args = [raw_chars |-> raw, text |-> Flatten(ps)]
    /\ call_result = NotCalled
    /\ regions = <<>>
    /\ MergeIdle
    /\ page_markdowns = <<>>
    /\ PatchIdle
    /\ OcrUnused
    /\ HybridUnused
    /\ DetectUnused
    /\ ConvertUnused
    /\ CacheUnused
    /\ RouteUnused

NextPattern == PatternCall

SpecPattern == InitPattern /\ [][NextPattern]_vars

\* ---- inputs of the response-parsing specification

MaxResponseLines == 3

\* Lines a model may answer with: well-formed ones with either separator,
\* dollar delimiters, the unreadable mark bare and in dollars, delimiters
\* around nothing, numbers outside the batch, unnumbered text, a missing
\* separator, padding, and a blank line.
ResponseLineChoices ==
    { <<"1", ":", " ", "x">>,
      <<"2", ".", "y">>,
      <<"1", ":", " ", "$", "$", "z", "$", "$">>,
      <<"1", ":", " ", "?", "?", "?">>,
      <<"2", ":", " ", "$", "?", "?", "?", "$">>,
      <<"1", ":", " ", "$", "$">>,
      <<"3", ":", " ", "w">>,
      <<"0", ":", " ", "q">>,
      <<"1", "2", ":", " ", "a">>,
      <<"x", ":", " ", "1">>,
      <<"1", " ", "x">>,
      <<" ", "2", ":", " ", " ", "v", " ">>,
      <<>> }

\* Batches of one and of two images, with the region indices they stand for.
ParseBatches ==
    { << <<3, "img">> >>, << <<3, "img">>, <<5, "img">> >> }

RECURSIVE JoinNewline(_)
JoinNewline(ls) ==
    IF ls = <<>> THEN <<>>
    ELSE IF Len(ls) = 1 THEN Head(ls)
    ELSE Head(ls) \o <<"\n">> \o JoinNewline(Tail(ls))

InitParse ==
    /\ pc = "parse_call"
    /\ \E b \in ParseBatches, n \in 0..MaxResponseLines :
         \E ls \in [1..n -> ResponseLineChoices] :
            call_args = [batch |-> b, response_text |-> JoinNewline(ls)]
    /\ call_result = NotCalled
    /\ regions = <<>>
    /\ MergeIdle
    /\ page_markdowns = <<>>
    /\ PatchIdle
    /\ OcrUnused
    /\ HybridUnused
    /\ DetectUnused
    /\ ConvertUnused
    /\ CacheUnused
    /\ RouteUnused

NextParse == ParseCall

SpecParse == InitParse /\ [][NextParse]_vars

\* ---- inputs of the convert specification

DEFAULT_OCR_MODEL == "google/gemini-2.5-flash"

ConvertKeys == {"", "sk-or-test"}

ConvertModels == {DEFAULT_OCR_MODEL, "openai/gpt-4o-mini"}

\* What to_markdown returns in one piece: with and without a picture.
WholeTexts ==
    { <<"x", "y", "\n", "a">>,
      <<ImagePath("fig.png"), " ", "_", "x", "_", "y">> }

InitConvert ==
    /\ pc = "conv_begin"
    /\ openrouter_api_key \in ConvertKeys
    /\ ocr_model \in ConvertModels
    /\ pdf_parses \in BOOLEAN
    /\ doc_markdown \in WholeTexts
    /\ \E n \in 0..MaxHybridPages :
         /\ chunks \in [1..n -> HybridTexts]
         /\ detected \in [1..n -> UNION {DetectChoices(p) : p \in 0..(n - 1)}]
         /\ \A p \in 1..n : detected[p] \in DetectChoices(p - 1)
    /\ image_files \in SUBSET HybridImages
    /\ regions = <<>>
    /\ page_markdowns = <<>>
    /\ PatchIdle
    /\ MergeIdle
    /\ page_images = <<>>
    /\ api_key = openrouter_api_key
    /\ batch_size = DEFAULT_BATCH_SIZE
    /\ max_workers = DEFAULT_MAX_WORKERS
    /\ ocr_input = <<>>
    /\ OcrIdle
    /\ HybridIdle
    /\ DetectUnused
    /\ CallUnused
    /\ ConvertIdle
    /\ CacheUnused
    /\ RouteUnused

NextConvert ==
    \/ ConvBegin
    \/ ConvPlain
    \/ HybPymupdfRaises
    \/ NextHybrid
    \/ ConvHybridEnd
    \/ ConvTimeout

SpecConvert == InitConvert /\ [][NextConvert]_vars

\* ---- inputs of the cache specification

MaxPuts == 2

MaxClockDays == 2

CacheUrls == {"https://example.com/doc.pdf", "https://example.com/b.pdf"}

\* Markdown texts: two versions, and one with a Windows line end.
CacheTexts ==
    { <<"v", "1">>, <<"v", "2">>, <<"a", "\r", "\n", "b">> }

\* images: none, or one picture
CacheImages == { <<>>, "fig1.png" :> "PNG" }

CachePageCounts == {1, 2}

CacheTtlDays == {0, 1}

InitCache ==
    /\ pc = "cache_ready"
    /\ disk = <<>>
    /\ stats_data = NoStats
    /\ stat_calls = NoStatCalls
    /\ stat_completed = NoStats
    /\ \E ttl_days \in CacheTtlDays : ttl_seconds = TtlSeconds(ttl_days)
    /\ clock = 0
    /\ cache_puts = <<>>
    /\ get_args = NoArgs
    /\ get_result = None
    /\ regions = <<>>
    /\ MergeIdle
    /\ page_markdowns = <<>>
    /\ PatchIdle
    /\ OcrUnused
    /\ HybridUnused
    /\ DetectUnused
    /\ CallUnused
    /\ ConvertUnused
    /\ RouteUnused

NextCache ==
    \/ \E url \in CacheUrls, markdown \in CacheTexts, images \in CacheImages,
          page_count \in CachePageCounts :
          /\ Len(cache_puts) < MaxPuts
          /\ CachePut(url, markdown, images, page_count)
    \/ \E url \in CacheUrls : CacheGet(url)
    \/ /\ clock < MaxClockDays * SECONDS_PER_DAY
       /\ CacheTick(1)

SpecCache == InitCache /\ [][NextCache]_vars

\* ---- inputs of the counter specification

MaxStatCallers == 2

MaxStatCalls == 4

\* The calls begun so far.
StatCallsBegun ==
    stat_completed.total_conversions + stat_completed.total_reads
        + Cardinality({c \in DOMAIN stat_calls : stat_calls[c].pc /= "idle"})

InitStats ==
    /\ pc = "stat_calls"
    /\ disk = <<>>
    /\ stats_data = NoStats
    /\ stat_calls = [c \in 1..MaxStatCallers |-> IdleStatCall]
    /\ stat_completed = NoStats
    /\ ttl_seconds = TtlSeconds(0)
    /\ clock = 0
    /\ cache_puts = <<>>
    /\ get_args = NoArgs
    /\ get_result = None
    /\ regions = <<>>
    /\ MergeIdle
    /\ page_markdowns = <<>>
    /\ PatchIdle
    /\ OcrUnused
    /\ HybridUnused
    /\ DetectUnused
    /\ CallUnused
    /\ ConvertUnused
    /\ RouteUnused

NextStats ==
    \/ \E c \in 1..MaxStatCallers, url \in CacheUrls, images \in CacheImages :
          /\ StatCallsBegun < MaxStatCalls
          /\ StatPutEntry(c, url, <<"v", "1">>, images, 1)
    \/ \E c \in 1..MaxStatCallers :
          /\ StatCallsBegun < MaxStatCalls
          /\ StatRecordRead(c)
    \/ \E c \in 1..MaxStatCallers : StatRead(c)
    \/ \E c \in 1..MaxStatCallers : StatWrite(c)

SpecStats == InitStats /\ [][NextStats]_vars

\* ---- inputs of the route specification

MaxRequests == 2

MaxRouteTicks == 2

DEFAULT_CACHE_TTL_DAYS == 30

\* Days that pass in one step of the clock: two steps outlast the default
\* expiry, one does not.
RouteTickDays == 16

\* The first segment and the rest of the request path; a path without a
\* host segment.
RoutePaths ==
    { <<"example.com", "doc.pdf">>, <<"example.com", "b.pdf">>, <<"", "">> }

\* PDF contents: a page with a picture; two pages with a Windows line end;
\* a file pymupdf4llm cannot read.
RouteContents ==
    { [parses |-> TRUE, markdown |-> <<"fig.png", " ", "x">>,
       images |-> {"fig.png"}, page_count |-> 1],
      [parses |-> TRUE, markdown |-> <<"a", "\r", "\n", "b">>,
       images |-> {}, page_count |-> 2],
      [parses |-> FALSE, markdown |-> <<>>, images |-> {}, page_count |-> 0] }

Upstream(failure, status, content_length, body_len, is_pdf, content) ==
    [failure |-> failure, status |-> status,
     content_length |-> content_length, body_len |-> body_len,
     is_pdf |-> is_pdf, content |-> content]

\* What the source server does: a PDF; 404; 403; 500; a Content-Length or
\* a body beyond the limit; a body that is no PDF; a timeout; a refused
\* connection.
RouteUpstreams ==
    { Upstream("none", 200, 0, 1000, TRUE, c) : c \in RouteContents }
      \cup { Upstream("none", st, 0, 0, FALSE, NoContent) :
                st \in {404, 403, 500} }
      \cup { Upstream("none", 200, MaxFileSizeBytes(MAX_FILE_SIZE_MB) + 1, 0,
                      TRUE, NoContent),
             Upstream("none", 200, 0, MaxFileSizeBytes(MAX_FILE_SIZE_MB) + 1,
                      TRUE, NoContent),
             Upstream("none", 200, 0, 1000, FALSE, NoContent),
             Upstream("timeout", 0, 0, 0, FALSE, NoContent),
             Upstream("connect", 0, 0, 0, FALSE, NoContent) }

\* int((time.monotonic() - start) * 1000)
ElapsedChoices == {0, 12}

InitRoute ==
    /\ pc = "route"
    /\ req = [r \in 1..MaxRequests |-> IdleRequest]
    /\ conversion_locks = <<>>
    /\ lock_objs = <<>>
    /\ max_size_bytes = MaxFileSizeBytes(MAX_FILE_SIZE_MB)
    /\ disk = <<>>
    /\ stats_data = NoStats
    /\ stat_calls = NoStatCalls
    /\ stat_completed = NoStats
    /\ ttl_seconds \in {TtlSeconds(0), TtlSeconds(DEFAULT_CACHE_TTL_DAYS)}
    /\ clock = 0
    /\ cache_puts = <<>>
    /\ get_args = NoArgs
    /\ get_result = None
    /\ regions = <<>>
    /\ MergeIdle
    /\ page_markdowns = <<>>
    /\ PatchIdle
    /\ OcrUnused
    /\ HybridUnused
    /\ DetectUnused
    /\ CallUnused
    /\ ConvertUnused

NextRoute ==
    \/ \E r \in 1..MaxRequests, p \in RoutePaths, refresh \in BOOLEAN :
          /\ IF r = 1 THEN TRUE ELSE req[r - 1].pc /= "idle"
          /\ RouteStart(r, p[1], p[2], refresh)
    \/ \E r \in 1..MaxRequests : RouteAcquired(r)
    \/ \E r \in 1..MaxRequests, up \in RouteUpstreams : RouteDownloaded(r, up)
    \/ \E r \in 1..MaxRequests, e \in ElapsedChoices :
          \E conversion \in ConvertPdfOutcomes(req[r].content) :
             RouteConverted(r, conversion, e)
    \/ /\ clock < MaxRouteTicks * RouteTickDays * SECONDS_PER_DAY
       /\ RouteTick(RouteTickDays)

SpecRoute == InitRoute /\ [][NextRoute]_vars

\* ---- inputs of the lock specification: the convert route with a third
\* request, one readable document and one missing one, no expiry.

MaxLockRequests == 3

LockPaths == { <<"example.com", "doc.pdf">>, <<"example.com", "b.pdf">> }

LockUpstreams ==
    { Upstream("none", 200, 0, 1000, TRUE,
               [parses |-> TRUE, markdown |-> <<"x">>, images |-> {},
                page_count |-> 1]),
      Upstream("none", 404, 0, 0, FALSE, NoContent) }

InitLocks ==
    /\ pc = "route"
    /\ req = [r \in 1..MaxLockRequests |-> IdleRequest]
    /\ conversion_locks = <<>>
    /\ lock_objs = <<>>
    /\ max_size_bytes = MaxFileSizeBytes(MAX_FILE_SIZE_MB)
    /\ disk = <<>>
    /\ stats_data = NoStats
    /\ stat_calls = NoStatCalls
    /\ stat_completed = NoStats
    /\ ttl_seconds = TtlSeconds(0)
    /\ clock = 0
    /\ cache_puts = <<>>
    /\ get_args = NoArgs
    /\ get_result = None
    /\ regions = <<>>
    /\ MergeIdle
    /\ page_markdowns = <<>>
    /\ PatchIdle
    /\ OcrUnused
    /\ HybridUnused
    /\ DetectUnused
    /\ CallUnused
    /\ ConvertUnused

NextLocks ==
    \/ \E r \in 1..MaxLockRequests, p \in LockPaths, refresh \in BOOLEAN :
          /\ IF r = 1 THEN TRUE ELSE req[r - 1].pc /= "idle"
          /\ RouteStart(r, p[1], p[2], refresh)
    \/ \E r \in 1..MaxLockRequests : RouteAcquired(r)
    \/ \E r \in 1..MaxLockRequests, up \in LockUpstreams :
          RouteDownloaded(r, up)
    \/ \E r \in 1..MaxLockRequests :
          \E conversion \in ConvertPdfOutcomes(req[r].content) :
             RouteConverted(r, conversion, 0)

SpecLocks == InitLocks /\ [][NextLocks]_vars

\* ---- inputs of the font specification

MaxFontLen == 4

\* The characters generated names are made of: letters of the prefixes in
\* both cases, a letter of no prefix, a digit, and the long s.
FontAlphabet == {"C", "c", "M", "m", "R", "S", "s", "U+017F", "x", "1"}

GeneratedFontNames ==
    UNION { [1..n -> FontAlphabet] : n \in 0..MaxFontLen }

\* The font names of TestIsMathFont.
TestFontNames ==
    { <<"C", "M", "M", "I", "1", "0">>, <<"C", "M", "S", "Y", "8">>,
      <<"C", "M", "E", "X", "1", "0">>, <<"C", "M", "R", "1", "2">>,
      <<"C", "M", "S", "S", "1", "0">>, <<"M", "S", "B", "M", "1", "0">>,
      <<"E", "U", "F", "M", "1", "0">>, <<"M", "S", "A", "M", "1", "0">>,
      <<"c", "m", "m", "i", "7">>, <<"C", "m", "S", "y", "5">>,
      <<"S", "F", "R", "M", "1", "0", "0", "0">>,
      <<"S", "F", "T", "I", "1", "0", "0", "0">>,
      <<"S", "F", "B", "X", "1", "2", "0", "0">>,
      <<"A", "r", "i", "a", "l">>,
      <<"T", "i", "m", "e", "s", "N", "e", "w", "R", "o", "m", "a", "n">>,
      <<"H", "e", "l", "v", "e", "t", "i", "c", "a">>,
      <<>> }

\* Names that hold a prefix after their first character, and names written
\* with the dotless i and the dotted capital I.
OtherFontNames ==
    { <<"x", "C", "M", "M", "I", "1", "0">>, <<"A", "B", "C", "M", "R">>,
      <<"S", "F", "C", "M", "S", "Y">>, <<" ", "M", "S", "B", "M">>,
      <<"c", "m", "m", "U+0131", "1", "0">>, <<"C", "M", "M", "U+0130">>,
      <<"C", "M", "M">>, <<"M", "S", "B">> }

InitFont ==
    /\ pc = "font_call"
    /\ \E name \in GeneratedFontNames \cup TestFontNames \cup OtherFontNames :
         call_args = [font_name |-> name]
    /\ call_result = NotCalled
    /\ regions = <<>>
    /\ MergeIdle
    /\ page_markdowns = <<>>
    /\ PatchIdle
    /\ OcrUnused
    /\ HybridUnused
    /\ DetectUnused
    /\ ConvertUnused
    /\ CacheUnused
    /\ RouteUnused

NextFont == FontCall

SpecFont == InitFont /\ [][NextFont]_vars

\* ---- inputs of the crop specification

\* The 200 x 100 image of the tests, used at 72 dpi.
TestImage == [width |-> 200, height |-> 100]

TEST_DPI == 72

\* Horizontal and vertical coordinates in points: left of, on, inside, at
\* the far edge of and beyond a page of 200 x 100 points (at 72 dpi) and of
\* 612 x 792 points (at RENDER_DPI).
CropXs == {-20, 0, 10, 50, 200, 250, 612, 700}

CropYs == {-5, 0, 10, 30, 100, 120, 792, 800}

CropBoxes ==
    { <<x0, y0, x1, y1>> : x0 \in CropXs, y0 \in CropYs,
                           x1 \in CropXs, y1 \in CropYs }

InitCrop ==
    /\ pc = "crop_call"
    /\ \E b \in CropBoxes, im \in {<<TestImage, TEST_DPI>>, <<PageImage, RENDER_DPI>>} :
         /\ b[1] < b[3]
         /\ b[2] < b[4]
         /\ call_args = [page_img |-> im[1], formula_bbox |-> b, dpi |-> im[2]]
    /\ call_result = NotCalled
    /\ regions = <<>>
    /\ MergeIdle
    /\ page_markdowns = <<>>
    /\ PatchIdle
    /\ OcrUnused
    /\ HybridUnused
    /\ DetectUnused
    /\ ConvertUnused
    /\ CacheUnused
    /\ RouteUnused

NextCrop == CropCall

SpecCrop == InitCrop /\ [][NextCrop]_vars

\* ---- claims about convert_pdf

\* The positions inside _run_hybrid.
HybridPcs ==
    FormulaOcrPcs \cup {"hyb_begin", "hyb_except", "hyb_normalize",
                        "hyb_done", "hyb_raised"}

\* C17: convert_pdf calls _run_hybrid, once and with the given key and
\* ocr_model, exactly when openrouter_api_key is not empty. With an empty
\* key it calls _run_pymupdf once (without page chunks), no step of the
\* formula OCR runs (no detection, rendering, crop, request or patch), and
\* what it returns is the result of that extraction.
C17_HybridIffKey ==
    pc /= "conv_begin" =>
        /\ hybrid_calls =
             IF openrouter_api_key /= ""
             THEN << [openrouter_api_key |-> openrouter_api_key,
                      ocr_model |-> ocr_model] >>
             ELSE <<>>
        /\ openrouter_api_key = "" =>
             /\ pc \notin HybridPcs
             /\ \A k \in 1..Len(pymupdf_calls) : ~pymupdf_calls[k].page_chunks
             /\ Len(pymupdf_calls) = 1
             /\ doc_page = 0
             /\ regions = <<>>
             /\ rendered = {}
             /\ requests = <<>>
             /\ crops = 0
             /\ patch_result = <<>>
             /\ pc = "conv_done" =>
                  /\ ~conv_return.raised
                  /\ conv_return.value.markdown
                       = NormalizeImagePaths(doc_markdown, image_files)
                  /\ conv_return.value.images = image_files
                  /\ conv_return.value.page_count = Len(chunks)

\* Without a key, a document with a picture and pages on which formulas
\* would be detected has been converted by the plain extraction alone.
C17_Witness ==
    /\ pc = "conv_done"
    /\ openrouter_api_key = ""
    /\ pymupdf_calls = << [page_chunks |-> FALSE] >>
    /\ \E p \in DOMAIN detected : detected[p] /= <<>>
    /\ image_files /= {}
    /\ \E k \in DOMAIN doc_markdown : doc_markdown[k] = ImagePath("fig.png")
    /\ \E k \in DOMAIN conv_return.value.markdown :
          conv_return.value.markdown[k] = "fig.png"

\* ---- claims about DiskCache

\* The positions in cache_puts of the puts for a url.
PutsFor(url) == {k \in 1..Len(cache_puts) : cache_puts[k].url = url}

LastPutFor(url) ==
    cache_puts[CHOOSE k \in PutsFor(url) : \A j \in PutsFor(url) : j <= k]

\* C18: with expiry disabled, get(url) returns the markdown, page_count and
\* source_url of the most recent put for the url, and the images directory
\* then holds that put's images and no others; it returns None for a url
\* never put.
C18_GetReturnsLastPut ==
    (pc = "cache_got" /\ ttl_seconds = 0) =>
        IF PutsFor(get_args.url) = {}
        THEN get_result = None
        ELSE /\ get_result /= None
             /\ get_result.markdown = LastPutFor(get_args.url).markdown
             /\ get_result.page_count = LastPutFor(get_args.url).page_count
             /\ get_result.source_url = get_args.url
             /\ disk[get_result.images_dir].images
                  = LastPutFor(get_args.url).images

\* ---- claims about the convert route

\* Request r was answered from the cache: 200, X-Cached true,
\* X-Conversion-Time-Ms 0, the markdown and the page count of the entry
\* stored when it arrived, and neither download_pdf nor convert_pdf called.
ServedFromCache(r) ==
    /\ req[r].pc = "done"
    /\ req[r].resp.status_code = 200
    /\ req[r].resp.headers.x_cached = "true"
    /\ req[r].resp.headers.x_conversion_time_ms = "0"
    /\ req[r].seen_dir /= <<>>
    /\ req[r].resp.body = ReadText(req[r].seen_dir[1].result_md)
    /\ req[r].resp.headers.x_page_count
         = Str(req[r].seen_dir[1].meta.page_count)
    /\ ~req[r].downloaded
    /\ ~req[r].converted
    /\ req[r].puts = 0

\* Request r, without refresh, arrived after a request for the same url
\* had been answered with 200.
LaterRequest(r) ==
    /\ req[r].pc /= "idle"
    /\ req[r].host /= ""
    /\ ~req[r].refresh
    /\ req[r].after_success

\* The time of the last put for the url of r before r arrived.
LastStoreBefore(r) ==
    LET ks == {k \in 1..req[r].puts_seen :
                  cache_puts[k].url = req[r].source_url}
    IN  cache_puts[CHOOSE k \in ks : \A j \in ks : j <= k].now

\* When r arrived, the expiry time had not passed since the last put for
\* its url (or expiry is disabled).
StoreUnexpired(r) ==
    \/ ttl_seconds = 0
    \/ req[r].started_at - LastStoreBefore(r) <= ttl_seconds

FailedRequest(r) ==
    /\ req[r].pc = "done"
    /\ req[r].error.kind \in {"download", "conversion"}

\* The answer to a failed request: the status code of the error, one of
\* 404, 413, 400, 502, 504, and a body starting with "# Error"; and no put.
ErrorAnswered(r) ==
    /\ req[r].resp.status_code = req[r].error.status_code
    /\ req[r].resp.status_code \in {404, 413, 400, 502, 504}
    /\ req[r].resp.body /= <<>>
    /\ req[r].resp.body[1] = "# Error"
    /\ req[r].puts = 0

\* C20: a request that fails in the download or in the conversion (timeout
\* included) is answered with the status code of the error and a body
\* starting with "# Error", and it changes nothing in the cache: it puts no
\* entry and removes none.
C20_FailureLeavesCache ==
    \A r \in DOMAIN req :
        FailedRequest(r) => (ErrorAnswered(r) /\ req[r].evictions = <<>>)

\* C20, amended: the same, except that the request's cache lookup may have
\* removed an entry that had already expired.
C20_FailureWritesNoEntry ==
    \A r \in DOMAIN req :
        FailedRequest(r) =>
            /\ ErrorAnswered(r)
            /\ \A k \in 1..Len(req[r].evictions) :
                  /\ ttl_seconds > 0
                  /\ req[r].evictions[k].at
                       - req[r].evictions[k].dir.meta.created_at > ttl_seconds

\* A conversion timeout was answered with 504 while the url had an entry in
\* the cache, which is still there.
C20_Witness ==
    \E r \in DOMAIN req :
        /\ FailedRequest(r)
        /\ req[r].error = [status_code |-> 504, kind |-> "conversion"]
        /\ req[r].refresh
        /\ req[r].seen_dir /= <<>>
        /\ UrlToCacheKey(req[r].source_url) \in DOMAIN disk
        /\ disk[UrlToCacheKey(req[r].source_url)] = req[r].seen_dir[1]

\* ---- claims about is_math_font

\* The simple upper-case and lower-case mappings of Unicode on the
\* characters of the inputs.
UpperOf(c) ==
    CASE c = "a" -> "A" [] c = "b" -> "B" [] c = "c" -> "C" [] c = "e" -> "E"
      [] c = "f" -> "F" [] c = "i" -> "I" [] c = "m" -> "M" [] c = "r" -> "R"
      [] c = "s" -> "S" [] c = "u" -> "U" [] c = "x" -> "X" [] c = "y" -> "Y"
      [] c = "U+0131" -> "I" [] c = "U+017F" -> "S"
      [] OTHER -> c

LowerOf(c) ==
    CASE c = "A" -> "a" [] c = "B" -> "b" [] c = "C" -> "c" [] c = "E" -> "e"
      [] c = "F" -> "f" [] c = "I" -> "i" [] c = "M" -> "m" [] c = "R" -> "r"
      [] c = "S" -> "s" [] c = "U" -> "u" [] c = "X" -> "x" [] c = "Y" -> "y"
      [] c = "U+0130" -> "i"
      [] OTHER -> c

SameLetter(a, b) == UpperOf(a) = UpperOf(b) \/ LowerOf(a) = LowerOf(b)

\* The prefixes the claim lists, and the body-text families it names.
ClaimedPrefixes ==
    { <<"C", "M", "M", "I">>, <<"C", "M", "S", "Y">>, <<"C", "M", "E", "X">>,
      <<"C", "M", "R">>, <<"C", "M", "S", "S">>, <<"M", "S", "B", "M">>,
      <<"E", "U", "F", "M">>, <<"M", "S", "A", "M">> }

BodyFamilies ==
    { <<"S", "F", "R", "M">>, <<"S", "F", "T", "I">>, <<"S", "F", "B", "X">> }

\* name holds pre, letters compared without case, from position o + 1 on.
HoldsAt(name, pre, o) ==
    /\ o + Len(pre) <= Len(name)
    /\ \A k \in 1..Len(pre) : SameLetter(name[o + k], pre[k])

BeginsWithPrefix(name) == \E pre \in ClaimedPrefixes : HoldsAt(name, pre, 0)

\* C16: is_math_font returns true exactly for the names that begin, letters
\* compared without case, with one of CMMI, CMSY, CMEX, CMR, CMSS, MSBM, EUFM,
\* MSAM; it returns false for the empty name, for names of the families SFRM,
\* SFTI, SFBX, and for names that hold a prefix only after their first
\* character.
C16_MathFontIsPrefixMatch ==
    pc = "font_done" =>
        LET name == call_args.font_name
        IN  /\ call_result = BeginsWithPrefix(name)
            /\ name = <<>> => call_result = FALSE
            /\ (\E fam \in BodyFamilies : HoldsAt(name, fam, 0))
                  => call_result = FALSE
            /\ ( /\ ~BeginsWithPrefix(name)
                 /\ \E pre \in ClaimedPrefixes, o \in 1..Len(name) :
                       HoldsAt(name, pre, o) )
                  => call_result = FALSE

\* A name holding a prefix only after its first character has been judged.
C16_Witness ==
    /\ pc = "font_done"
    /\ call_args.font_name = <<"x", "C", "M", "M", "I", "1", "0">>
    /\ call_result = FALSE

\* ---- claims about crop_formula_image

\* C15: for every bounding box crop_formula_image returns; the rectangle it
\* crops lies in the image, 0 <= x0 <= x1 <= width and 0 <= y0 <= y1 <=
\* height; the image returned is (x1 - x0) + 2 * CROP_PADDING wide and
\* (y1 - y0) + 2 * CROP_PADDING high, the crop pasted at (CROP_PADDING,
\* CROP_PADDING).
C15_CropWithinImage ==
    pc = "crop_done" =>
        /\ ~call_result.raised
        /\ 0 <= call_result.box[1]
        /\ call_result.box[1] <= call_result.box[3]
        /\ call_result.box[3] <= call_args.page_img.width
        /\ 0 <= call_result.box[2]
        /\ call_result.box[2] <= call_result.box[4]
        /\ call_result.box[4] <= call_args.page_img.height
        /\ call_result.width
             = (call_result.box[3] - call_result.box[1]) + 2 * CROP_PADDING
        /\ call_result.height
             = (call_result.box[4] - call_result.box[2]) + 2 * CROP_PADDING
        /\ call_result.paste = <<CROP_PADDING, CROP_PADDING>>

\* ---- claims about _ocr_batch_openrouter

\* The stripped lines of the response text.
StrippedLines(text) ==
    LET raw == SplitNewline(Strip(text), <<>>)
    IN  [k \in 1..Len(raw) |-> Strip(raw[k])]

\* What follows the separator at position d + 1 of a line.
RestOf(line, d) == Strip(SubSeq(line, d + 2, Len(line)))

\* line is <number n> <':' or '.'> <rest>, the number d digits long and the
\* rest not empty.
NumberedAt(line, d, n) ==
    /\ \A k \in 1..d : IsDigit(line[k])
    /\ IntOf(SubSeq(line, 1, d)) = n
    /\ d + 1 <= Len(line)
    /\ line[d + 1] \in {":", "."}
    /\ RestOf(line, d) /= <<>>

\* C14: every key of the result of a batch is the region index of the n-th
\* image of the batch for a line <n><':' or '.'><rest> of the response with
\* n in 1..batch length, its value is the rest of such a line without its
\* leading and trailing dollar signs, and no value is ??? or empty.
C14_ParseContract ==
    pc = "parse_done" =>
        \A i \in DOMAIN call_result :
            /\ \E k \in 1..Len(StrippedLines(call_args.response_text)),
                  n \in 1..Len(call_args.batch) :
                  LET line == StrippedLines(call_args.response_text)[k]
                  IN  \E d \in 1..Len(line) :
                         /\ NumberedAt(line, d, n)
                         /\ call_args.batch[n][1] = i
                         /\ call_result[i]
                              = Strip(StripDollars(RestOf(line, d)))
            /\ call_result[i] /= Unreadable
            /\ call_result[i] /= <<>>

\* ---- claims about build_search_pattern

\* The characters raw[i..] are found in text, raw[i] at position p, each next
\* one after at most MD_FILLER_MAX characters, all of them fillers.
RECURSIVE FoundAt(_, _, _, _)
FoundAt(text, raw, i, p) ==
    /\ p <= Len(text)
    /\ text[p] = raw[i]
    /\ \/ i = Len(raw)
       \/ \E k \in 0..MD_FILLER_MAX :
            /\ \A j \in 1..k : p + j <= Len(text) /\ text[p + j] \in FillerChars
            /\ FoundAt(text, raw, i + 1, p + k + 1)

ContainsInOrder(text, raw) == \E p \in 1..Len(text) : FoundAt(text, raw, 1, p)

\* C13: build_search_pattern gives no pattern for fewer than 2 characters;
\* for more, the pattern is found in a text exactly when the text holds the
\* characters in order, literally, consecutive ones separated by at most 6
\* characters, all of them fillers.
C13_PatternMatchesInterleaved ==
    pc = "pattern_done" =>
        IF Len(call_args.raw_chars) < 2
        THEN call_result.pattern = NoPattern
        ELSE /\ call_result.pattern /= NoPattern
             /\ (call_result.match /= NoMatch)
                  <=> ContainsInOrder(call_args.text, call_args.raw_chars)

\* Found with a literal asterisk and a full run of 6 fillers in between.
C13_Witness ==
    /\ pc = "pattern_done"
    /\ call_args.raw_chars = <<"a", "*", "a">>
    /\ call_args.text = <<"a">> \o FillerText(MD_FILLER_MAX, "_")
                          \o <<"*", "[", "a">>
    /\ call_result.match /= NoMatch

\* ---- claims about detect_formula_regions

\* The number of non-whitespace characters of the texts of a list of spans.
RECURSIVE RawCount(_)
RawCount(spans) ==
    IF spans = <<>>
    THEN 0
    ELSE Cardinality({k \in 1..Len(SpanText(Head(spans))) :
                         SpanText(Head(spans))[k] \notin Whitespace})
         + RawCount(Tail(spans))

\* A run has flag bit 0 set, or two runs differ in font name.
Structured(spans) ==
    \/ \E k \in 1..Len(spans) : (SpanFlags(spans[k]) \div 1) % 2 = 1
    \/ \E j, k \in 1..Len(spans) : SpanFont(spans[j]) /= SpanFont(spans[k])

Candidate(spans) ==
    \/ RawCount(spans) >= 3
    \/ RawCount(spans) >= 2 /\ Structured(spans)

\* The longest run of math-font spans at the end of a list of spans.
RECURSIVE TrailingMath(_)
TrailingMath(spans) ==
    IF spans = <<>> \/ ~IsMathFont(SpanFont(spans[Len(spans)]))
    THEN <<>>
    ELSE Append(TrailingMath(SubSeq(spans, 1, Len(spans) - 1)),
                spans[Len(spans)])

RECURSIVE BuiltOf(_)
BuiltOf(gs) == IF gs = <<>> THEN <<>> ELSE Head(gs).built \o BuiltOf(Tail(gs))

\* C11: a group of consecutive math-font runs of a line becomes a region
\* exactly when it has 3 or more raw characters, or 2 or more and math
\* structure; every other group is dropped; and the group in collection is
\* always the run of math-font spans since the last non-math span of the line.
C11_CandidateFilter ==
    /\ \A g \in 1..Len(groups) :
          /\ groups[g].spans /= <<>>
          /\ \A k \in 1..Len(groups[g].spans) :
                IsMathFont(SpanFont(groups[g].spans[k]))
          /\ IF Candidate(groups[g].spans)
             THEN /\ Len(groups[g].built) = 1
                  /\ groups[g].built[1].spans = groups[g].spans
             ELSE groups[g].built = <<>>
    /\ det_regions = BuiltOf(groups)
    /\ pc = "det_span" =>
          current_math_spans
            = TrailingMath(SubSeq(CurrentLineSpans, 1, span_idx - 1))

\* A page on which a two-character group with a superscript was kept and a
\* two-character group without structure was dropped.
C11_Witness ==
    /\ pc = "merge_done"
    /\ \E g, h \in 1..Len(groups) :
          /\ RawCount(groups[g].spans) = 2
          /\ Structured(groups[g].spans)
          /\ groups[g].built /= <<>>
          /\ RawCount(groups[h].spans) = 2
          /\ ~Structured(groups[h].spans)
          /\ groups[h].built = <<>>

\* All the characters of the texts of the spans, in span order.
RECURSIVE AllText(_)
AllText(spans) ==
    IF spans = <<>> THEN <<>> ELSE SpanText(Head(spans)) \o AllText(Tail(spans))

RawCharsDerivable(r) == r.raw_chars = NonSpace(AllText(r.spans))

\* C12: the raw_chars of every region, as built by detection and as left by
\* every merge, is the text of its spans, in span order, without whitespace.
C12_RawCharsFromSpans ==
    /\ \A k \in 1..Len(det_regions) : RawCharsDerivable(det_regions[k])
    /\ \A k \in 1..Len(regions) : RawCharsDerivable(regions[k])
    /\ \A k \in 1..Len(merged) : RawCharsDerivable(merged[k])
    /\ pc = "merge_loop" => RawCharsDerivable(current)

\* Detection returned a region merged from two groups, with a span that has
\* a blank in its text.
C12_Witness ==
    /\ pc = "merge_done"
    /\ \E k \in 1..Len(merged) :
          /\ Cardinality(mergedSrc[k]) >= 2
          /\ Len(merged[k].raw_chars) < Len(AllText(merged[k].spans))
          /\ merged[k].raw_chars /= <<>>
          /\ RawCharsDerivable(merged[k])

\* ---- claims about _run_hybrid and _run_formula_ocr

\* What the plain extraction returns for the document.
PlainResult == RunPymupdf(chunks, image_files)

\* C1: when _run_formula_ocr raises, at whatever position, _run_hybrid does
\* not raise: it returns the result of the plain extraction, whose markdown
\* is the unpatched page texts joined, with the same images and page count.
C1_FallbackOnError ==
    /\ pc /= "hyb_raised"
    /\ ~hyb_return.raised
    /\ pc = "hyb_except" => exc \in FormulaOcrPcs
    /\ (pc = "hyb_done" /\ exc /= "") =>
          /\ hyb_return = Returned(result)
          /\ hyb_return.value = PlainResult
          /\ hyb_return.value.markdown
               = NormalizeImagePaths(JoinLines(chunks), image_files)
          /\ hyb_return.value.images = image_files
          /\ hyb_return.value.page_count = Len(chunks)

\* Raised in the middle of patching, after a formula was already replaced
\* in the page in work: the returned markdown has no trace of it.
C1_Witness ==
    /\ pc = "hyb_done"
    /\ exc = "patch_region"
    /\ total_patched >= 1
    /\ patched /= page_markdowns[page_idx + 1]
    /\ requests /= <<>>
    /\ hyb_return.value = PlainResult

NothingDetected == \A p \in DOMAIN detected : detected[p] = <<>>

\* C2: when detection finds no region on any page, _run_formula_ocr returns
\* the page texts joined by a newline, as they were, without rendering a
\* page, without calling ocr_formulas or patch_markdown, and with no crop and
\* no request.
C2_NoRegionsSkipsOcr ==
    NothingDetected =>
        /\ rendered = {}
        /\ page_images = <<>>
        /\ requests = <<>>
        /\ crops = 0
        /\ pc \in {"hyb_begin", "hyb_detect", "hyb_normalize", "hyb_except",
                   "hyb_done"}
        /\ pc = "hyb_normalize" => patched_markdown = JoinLines(chunks)
        /\ (pc = "hyb_done" /\ exc = "") =>
              hyb_return.value.markdown
                = NormalizeImagePaths(JoinLines(chunks), image_files)

\* Two pages without formulas, one with a picture: returned from detection
\* with the joined text.
C2_Witness ==
    /\ pc = "hyb_normalize"
    /\ Len(chunks) = 2
    /\ chunks[1] /= chunks[2]
    /\ NothingDetected
    /\ doc_page = 2
    /\ patched_markdown = JoinLines(chunks)
    /\ rendered = {}
    /\ requests = <<>>

\* ---- claims about ocr_formulas

\* The regions that get an image: their page was rendered.
WithImage == {i \in 1..Len(ocr_input) : ocr_input[i].page_num \in DOMAIN page_images}

\* ceil(n / b)
CeilDiv(n, b) == (n + b - 1) \div b

\* C3: with an empty api_key or an empty region list ocr_formulas returns the
\* regions it was given, every latex as it was, and neither crops an image
\* nor issues a request.
C3_NoOpWithoutKeyOrRegions ==
    (api_key = "" \/ ocr_input = <<>>) =>
        /\ requests = <<>>
        /\ crops = 0
        /\ regions = ocr_input
        /\ pc \in {"ocr_begin", "ocr_done"}
        /\ pc = "ocr_done" => ocr_result = ocr_input

\* Returned without a key: two regions, one with and one without latex, on
\* a rendered page.
C3_Witness ==
    /\ pc = "ocr_done"
    /\ api_key = ""
    /\ Len(ocr_input) >= 2
    /\ ocr_input[1].latex = <<>>
    /\ ocr_input[2].latex /= <<>>
    /\ WithImage = {1, 2}
    /\ ocr_result = ocr_input

\* The region indices of the images of batch b, in batch order.
BatchIndices(b) == [k \in 1..Len(batches[b]) |-> batches[b][k][1]]

RECURSIVE AllBatchIndices(_)
AllBatchIndices(n) ==
    IF n = 0 THEN <<>> ELSE AllBatchIndices(n - 1) \o BatchIndices(n)

\* C4: with an api_key and batch size B >= 1, the N images are split into
\* ceil(N/B) batches of at most B images, all but the last of exactly B,
\* in increasing region-index order with every image in exactly one batch,
\* and exactly one request per batch, ceil(N/B) in all, has been issued when
\* the function returns.
C4_CeilBatches ==
    (api_key /= "" /\ pc \in {"ocr_pool", "ocr_done"}) =>
        LET N == Cardinality(WithImage)
            all == AllBatchIndices(Len(batches))
        IN  /\ Len(batches) = CeilDiv(N, batch_size)
            /\ \A b \in 1..Len(batches) :
                  /\ Len(batches[b]) \in 1..batch_size
                  /\ b < Len(batches) => Len(batches[b]) = batch_size
            /\ Len(all) = N
            /\ \A k \in 1..Len(all) : all[k] \in WithImage
            /\ \A j, k \in 1..Len(all) : j < k => all[j] < all[k]
            /\ Len(requests) <= CeilDiv(N, batch_size)
            /\ \A j, k \in 1..Len(requests) : j /= k => requests[j] /= requests[k]
            /\ pc = "ocr_done" => Len(requests) = CeilDiv(N, batch_size)

\* Three images in batches of two: two requests, the second batch short.
C4_Witness ==
    /\ pc = "ocr_done"
    /\ api_key /= ""
    /\ Cardinality(WithImage) = 3
    /\ batch_size = 2
    /\ Len(batches) = 2
    /\ Len(batches[2]) = 1
    /\ Len(requests) = 2

\* In the pool, some step of the dispatch can be taken.
OcrPoolProceeds ==
    \/ \E b \in DOMAIN futures : futures[b].state \in {"running", "finished"}
    \/ \E b \in DOMAIN futures :
         /\ futures[b].state = "pending"
         /\ Cardinality(Running) < max_workers
    \/ \A b \in DOMAIN futures : futures[b].state = "collected"

\* C5: whichever batches fail, ocr_formulas does not raise and goes on to
\* return; on return every batch has run and been drained, every result of a
\* batch that did not fail is the latex of its region, and the regions of a
\* failed batch have the latex they came with.
C5_FailedBatchIsolated ==
    /\ pc /= "ocr_raised"
    /\ pc = "ocr_pool" => OcrPoolProceeds
    /\ (pc = "ocr_done" /\ ~(api_key = "" \/ ocr_input = <<>>)) =>
          /\ ocr_result = regions
          /\ \A b \in DOMAIN futures :
                /\ futures[b].state = "collected"
                /\ futures[b].ok =>
                      \A i \in DOMAIN futures[b].results :
                          regions[i].latex = futures[b].results[i]
                /\ ~futures[b].ok =>
                      \A k \in 1..Len(batches[b]) :
                          regions[batches[b][k][1]].latex
                            = ocr_input[batches[b][k][1]].latex

\* Returned after one batch failed and another delivered a result, which was
\* written, while the failed batch's region kept its old latex.
C5_Witness ==
    /\ pc = "ocr_done"
    /\ Len(batches) >= 2
    /\ \E b1, b2 \in DOMAIN futures :
          /\ ~futures[b1].ok
          /\ ocr_input[batches[b1][1][1]].latex /= <<>>
          /\ regions[batches[b1][1][1]].latex = ocr_input[batches[b1][1][1]].latex
          /\ futures[b2].ok
          /\ \E i \in DOMAIN futures[b2].results :
                /\ regions[i].latex = futures[b2].results[i]
                /\ regions[i].latex /= ocr_input[i].latex

\* The batches ocr_formulas makes of the given regions: a function of the
\* input only.
BatchesOf(regs) == SplitBatches(IndexedImages(regs, page_images), batch_size)

\* The region indices batch b of bs carries.
IndexSet(bs, b) == {bs[b][k][1] : k \in 1..Len(bs[b])}

\* The latex region i of regs has after a pass in which batch b read the
\* response futures[b].response or failed: defined from the input and the
\* responses alone, with no reference to the order of completion.
LatexFrom(regs, i) ==
    LET bs == BatchesOf(regs)
        answering == {b \in 1..Len(bs) :
                        /\ futures[b].ok
                        /\ i \in DOMAIN OcrBatchResults(bs[b], futures[b].response)}
    IN  IF answering = {}
        THEN regs[i].latex
        ELSE LET b == CHOOSE b \in answering : TRUE
             IN  OcrBatchResults(bs[b], futures[b].response)[i]

\* C21 (state part): the batches carry disjoint sets of region indices, a
\* batch returns results for indices of its own only, and on return the
\* latex of every region is the one fixed by the input and the per-batch
\* responses, whatever the order of completion was; a second pass over the
\* returned regions with the same responses gives the same latex again.
C21_ResultsPartitioned ==
    pc \in {"ocr_pool", "ocr_done"} /\ ~OcrIsNoOp(ocr_input, api_key) =>
        /\ batches = BatchesOf(ocr_input)
        /\ \A b1, b2 \in 1..Len(batches) :
              b1 /= b2 => IndexSet(batches, b1) \cap IndexSet(batches, b2) = {}
        /\ \A b \in DOMAIN futures :
              DOMAIN futures[b].results \subseteq IndexSet(batches, b)
        /\ \A i \in DOMAIN all_results :
              \E b \in DOMAIN futures :
                 /\ futures[b].state = "collected"
                 /\ i \in DOMAIN futures[b].results
                 /\ all_results[i] = futures[b].results[i]
        /\ pc = "ocr_done" =>
              /\ Len(ocr_result) = Len(ocr_input)
              /\ \A i \in 1..Len(ocr_input) :
                    /\ ocr_result[i].latex = LatexFrom(ocr_input, i)
                    /\ LatexFrom(ocr_result, i) = ocr_result[i].latex
                    /\ [ocr_result[i] EXCEPT !.latex = <<>>]
                         = [ocr_input[i] EXCEPT !.latex = <<>>]

\* C21: in ocr_formulas the region indices are partitioned by batch, the
\* shared result map all_results changes only in the dispatching thread
\* (when the batches are set up and when the as_completed loop takes a
\* finished future; a step of a pool worker leaves it alone), and so the
\* final latex of every region is the same for every order of completion.
C21_OrderIndependent ==
    /\ []C21_ResultsPartitioned
    /\ [][ /\ all_results' /= all_results =>
                \/ pc = "ocr_prepare"
                \/ \E b \in DOMAIN futures :
                      /\ futures[b].state = "finished"
                      /\ futures'[b].state = "collected"
           /\ (\E b \in DOMAIN futures :
                  /\ b \in DOMAIN futures'
                  /\ futures[b].state \in {"pending", "running"}
                  /\ futures'[b].state /= futures[b].state)
                => all_results' = all_results ]_vars

\* Returned after two batches that both delivered results were taken in the
\* reverse of their submission order.
C21_Witness ==
    /\ pc = "ocr_done"
    /\ Len(batches) >= 2
    /\ futures[1].ok /\ futures[1].results /= EmptyDict
    /\ futures[2].ok /\ futures[2].results /= EmptyDict
    /\ \E i \in DOMAIN futures[2].results : ocr_result[i].latex /= ocr_input[i].latex
    /\ futures[2].delivered < futures[1].delivered

\* ---- claims about patch_markdown

\* The loop is about to run its body on regions[page_regions[ri]].
PatchTurn == pc = "patch_region" /\ ri <= Len(page_regions)

\* latex is empty or whitespace-only
LatexBlank(region) ==
    \A i \in 1..Len(region.latex) : region.latex[i] \in Whitespace

\* The pattern of raw_chars exists and matches somewhere in text.
MatchExists(text, raw_chars) ==
    /\ BuildSearchPattern(raw_chars) /= NoPattern
    /\ \E s \in 1..(Len(text) + 1) :
          MatchParts(text, s, BuildSearchPattern(raw_chars), 1) /= 0

Unpatchable(text, region) ==
    LatexBlank(region) \/ ~MatchExists(text, region.raw_chars)

\* No region can be patched into the input pages.
NonePatchable ==
    \A i \in 1..Len(regions) :
        \/ regions[i].page_num \notin 0..(Len(page_markdowns) - 1)
        \/ Unpatchable(page_markdowns[regions[i].page_num + 1], regions[i])

PatchPcs == {"patch_begin", "patch_page", "patch_region", "patch_done"}

\* Before its return the function always has a step to take, and the region
\* that step reads exists.
PatchProceeds ==
    /\ pc \in PatchPcs
    /\ pc = "patch_page" => page_idx \in 0..Len(page_markdowns)
    /\ pc = "patch_region" =>
          /\ page_idx + 1 \in 1..Len(page_markdowns)
          /\ ri \in 1..(Len(page_regions) + 1)
          /\ \A k \in 1..Len(page_regions) : page_regions[k] \in 1..Len(regions)

\* C6: patch_markdown never raises (it always proceeds to its return); a
\* region with empty or whitespace-only latex, without pattern, or without a
\* match in the current text of its page leaves the text unchanged at its
\* turn; when no region is patchable the result is the input pages joined by
\* a newline.
C6_UnpatchableLeavesText ==
    /\ [][ (PatchTurn /\ Unpatchable(patched, regions[page_regions[ri]]))
           => patched' = patched ]_vars
    /\ []PatchProceeds
    /\ [](pc = "patch_done" /\ NonePatchable
            => patch_result = JoinLines(page_markdowns))

\* Two pages and two regions, one with whitespace-only latex whose pattern
\* matches and one without a match, returned unchanged.
C6_Witness ==
    /\ pc = "patch_done"
    /\ Len(page_markdowns) = 2
    /\ Len(regions) = 2
    /\ regions[1].latex = <<" ">>
    /\ MatchExists(page_markdowns[regions[1].page_num + 1], regions[1].raw_chars)
    /\ ~LatexBlank(regions[2])
    /\ BuildSearchPattern(regions[2].raw_chars) /= NoPattern
    /\ ~MatchExists(page_markdowns[regions[2].page_num + 1], regions[2].raw_chars)
    /\ total_skipped = 2
    /\ patch_result = JoinLines(page_markdowns)

\* text2 is text with the leftmost match of the region's pattern replaced by
\* the stripped latex in its delimiters.
ReplacedLeftmost(text, region, text2) ==
    LET pat == BuildSearchPattern(region.raw_chars)
        delim == IF region.is_display THEN <<"$", "$">> ELSE <<"$">>
    IN  \E s \in 1..(Len(text) + 1) :
          /\ MatchParts(text, s, pat, 1) /= 0
          /\ \A s2 \in 1..(s - 1) : MatchParts(text, s2, pat, 1) = 0
          /\ text2 = SubSeq(text, 1, s - 1)
                       \o delim \o Strip(region.latex) \o delim
                       \o SubSeq(text, MatchParts(text, s, pat, 1), Len(text))

\* C7 as claimed: every region with non-empty latex whose pattern matches the
\* current text of its page has its leftmost match replaced by the stripped
\* latex in $ (inline) or $$ (display).
C7_NonEmptyLatexReplaced ==
    [][ ( /\ PatchTurn
          /\ regions[page_regions[ri]].latex /= <<>>
          /\ MatchExists(patched, regions[page_regions[ri]].raw_chars) )
        => ReplacedLeftmost(patched, regions[page_regions[ri]], patched') ]_vars

\* C7 amended: the same for every region whose latex is non-empty after
\* stripping whitespace.
C7_NonBlankLatexReplaced ==
    [][ ( /\ PatchTurn
          /\ ~LatexBlank(regions[page_regions[ri]])
          /\ MatchExists(patched, regions[page_regions[ri]].raw_chars) )
        => ReplacedLeftmost(patched, regions[page_regions[ri]], patched') ]_vars

\* The first of two occurrences, with the formatting around it, was replaced
\* by the stripped latex of a display region.
C7_Witness ==
    /\ pc = "patch_done"
    /\ page_markdowns = << <<"a", "_", "x", "_", " ", "y", " ", "x", "y">> >>
    /\ Len(regions) = 1
    /\ regions[1].is_display
    /\ regions[1].raw_chars = <<"x", "y">>
    /\ regions[1].latex = <<" ", "x", "y", "\n">>
    /\ patch_result = <<"a", "$", "$", "x", "y", "$", "$", "x", "y">>

\* The text after the first n regions of order have had their turn.
RECURSIVE TextAfter(_, _, _)
TextAfter(text, order, n) ==
    IF n = 0
    THEN text
    ELSE PatchOne(TextAfter(text, order, n - 1), regions[order[n]])

MergeComparing == pc = "merge_loop" /\ idx <= Len(regions)

\* The step just taken merged next_region into current.
MergeTaken == idx' = idx + 1 /\ merged' = merged

\* current' is the union of current and next_region, as the claim states it.
IsUnionOf(cur, nxt, out) ==
    /\ out.page_num = cur.page_num
    /\ out.bbox[1] = Min2(cur.bbox[1], nxt.bbox[1])
    /\ out.bbox[2] = Min2(cur.bbox[2], nxt.bbox[2])
    /\ out.bbox[3] = Max2(cur.bbox[3], nxt.bbox[3])
    /\ out.bbox[4] = Max2(cur.bbox[4], nxt.bbox[4])
    /\ out.is_display = (cur.is_display \/ nxt.is_display)
    /\ out.spans = cur.spans \o nxt.spans
    /\ out.raw_chars = cur.raw_chars \o nxt.raw_chars

\* C9 as claimed: whenever the accumulated region and the next region are on
\* the same page, overlap vertically by AT LEAST half of the smaller height
\* and have a gap below the threshold, the step merges them into one region
\* that is their union.
C9_MergeAtHalfOverlap ==
    [][ ( /\ MergeComparing
          /\ current.page_num = regions[idx].page_num
          /\ MinHeight(current, regions[idx]) > 0
          /\ 2 * OverlapHeight(current, regions[idx])
                >= MinHeight(current, regions[idx])
          /\ XGap(current, regions[idx]) < X_THRESHOLD )
        => ( MergeTaken /\ IsUnionOf(current, regions[idx], current') ) ]_vars

\* C9 amended: the same with a vertical overlap of MORE than half of the
\* smaller height: the two regions become exactly one region (nothing is
\* emitted) whose box is the union, whose is_display is the OR and whose
\* spans and raw_chars are the concatenation in original order.
C9_MergeAboveHalfOverlap ==
    [][ ( /\ MergeComparing
          /\ current.page_num = regions[idx].page_num
          /\ MinHeight(current, regions[idx]) > 0
          /\ 2 * OverlapHeight(current, regions[idx])
                > MinHeight(current, regions[idx])
          /\ XGap(current, regions[idx]) < X_THRESHOLD )
        => ( MergeTaken /\ IsUnionOf(current, regions[idx], current') ) ]_vars

\* A two-region input whose regions qualify has become one union region.
C9_Witness ==
    /\ pc = "merge_done"
    /\ Len(regions) = 2
    /\ regions[1].page_num = regions[2].page_num
    /\ 2 * OverlapHeight(regions[1], regions[2]) > MinHeight(regions[1], regions[2])
    /\ XGap(regions[1], regions[2]) < X_THRESHOLD
    /\ regions[1].is_display /= regions[2].is_display
    /\ Len(merged) = 1
    /\ IsUnionOf(regions[1], regions[2], merged[1])

\* Every input region merged into r lies on r's page.
SinglePage(r, src) == \A i \in src : regions[i].page_num = r.page_num

\* C10: a merge is taken only between regions of one page whose gap is below
\* the threshold and whose vertical overlap ratio is above one half; hence
\* every output region (and the accumulator) is built from regions of a
\* single page.
C10_NeverMergesAcross ==
    /\ [][ (MergeComparing /\ MergeTaken)
            => ( /\ current.page_num = regions[idx].page_num
                 /\ XGap(current, regions[idx]) < X_THRESHOLD
                 /\ MinHeight(current, regions[idx]) > 0
                 /\ 2 * OverlapHeight(current, regions[idx])
                       > MinHeight(current, regions[idx]) ) ]_vars
    /\ [](\A k \in 1..Len(merged) : SinglePage(merged[k], mergedSrc[k]))
    /\ [](pc = "merge_loop" => SinglePage(current, curSrc))

\* Two regions that would merge but for their pages, or but for a gap of
\* exactly the threshold, or but for an overlap of exactly one half, were
\* kept apart.
C10_Witness ==
    /\ pc = "merge_done"
    /\ Len(regions) = 3
    /\ Len(merged) = 3
    /\ regions[1].page_num = regions[2].page_num
    /\ XGap(regions[1], regions[2]) = X_THRESHOLD
    /\ YOverlap(regions[1], regions[2])
    /\ regions[2].page_num /= regions[3].page_num
    /\ YOverlap(regions[2], regions[3])
    /\ XGap(regions[2], regions[3]) < X_THRESHOLD


\* ---- claims about the order of OCR and patching

\* Some region has another latex after the step than before it.
LatexWritten ==
    \E i \in DOMAIN regions \cap DOMAIN regions' :
        regions'[i].latex /= regions[i].latex

AllDrained == \A b \in DOMAIN futures : futures[b].state = "collected"

InFlight == {b \in DOMAIN futures : futures[b].state = "running"}

\* C22 (state part): until ocr_formulas writes back, every region has the
\* latex it came with; while patch_markdown runs, ocr_formulas has returned,
\* every batch has been delivered (none is queued or in flight) and the
\* regions are those ocr_formulas returned.
C22_PatchAfterDispatch ==
    /\ pc \in {"ocr_begin", "ocr_prepare", "ocr_pool"} => regions = ocr_input
    /\ pc \in PatchPcs =>
          /\ AllDrained
          /\ InFlight = {}
          /\ Len(requests) = Len(batches)
          /\ regions = ocr_result

\* C22: no region's latex is written before every batch has completed or
\* failed; the write-back is the single step that ends the OCR pass, so a
\* latex is written at most once per pass; patch_markdown starts only after
\* ocr_formulas has returned, with no batch in flight, and changes no latex.
C22_WriteOnceThenPatch ==
    /\ []C22_PatchAfterDispatch
    /\ [][ /\ LatexWritten =>
                /\ pc = "ocr_pool" /\ pc' = "ocr_done"
                /\ AllDrained
           /\ pc' = "patch_begin" => pc = "ocr_done"
           /\ pc \in {"ocr_done"} \cup PatchPcs =>
                pc' \in {"ocr_done"} \cup PatchPcs ]_vars

\* patch_markdown has inserted a formula that a second batch, delivered
\* after another batch had failed, read from its response.
C22_Witness ==
    /\ pc = "patch_done"
    /\ Len(batches) >= 2
    /\ \E b \in DOMAIN futures : ~futures[b].ok
    /\ \E i \in 1..Len(regions) :
          /\ regions[i].latex /= <<>>
          /\ ocr_input[i].latex = <<>>
    /\ total_patched >= 1
    /\ patch_result /= JoinLines(page_markdowns)

\* ---- claims about the timeout of convert_pdf

\* convert_pdf has ended.
ConvEnded == pc \in {"conv_done", "conv_raised"}

\* A step in which convert_pdf ends although the thread running _run_hybrid
\* is at a position before its return or raise: the wait for the thread was
\* cut off by the timeout.
EndsWithHybridRunning ==
    /\ pc \in ConvThreadPcs \ {"conv_plain"}
    /\ pc' \in {"conv_done", "conv_raised"}

\* C23 as claimed: when the timeout elapses while the hybrid pipeline is
\* still running, convert_pdf does not fail; it returns the unpatched
\* markdown, as for an exception of the formula OCR.
C23_TimeoutFallsBack ==
    [][ EndsWithHybridRunning =>
          /\ ~conv_return'.raised
          /\ conv_return'.value.markdown
               = NormalizeImagePaths(JoinLines(chunks), image_files) ]_vars

\* C23 (amended): when the timeout elapses while the hybrid pipeline is
\* still running, convert_pdf raises ConversionTimeoutError (status 504) and
\* returns no markdown; the unpatched markdown is returned only when the
\* formula OCR itself raised and _run_hybrid returned its fallback.
C23_TimeoutRaises504 ==
    /\ [][ EndsWithHybridRunning =>
             /\ conv_return'.raised
             /\ conv_return'.status = CONVERSION_TIMEOUT_STATUS
             /\ conv_return'.value = NoResult ]_vars
    /\ []( (pc = "conv_done" /\ hybrid_calls /= <<>>) =>
             /\ ~conv_return.raised
             /\ conv_return.value = hyb_return.value
             /\ exc /= "" => conv_return.value = PlainResult )

\* The timeout elapsed while an OCR batch was in flight, after the plain
\* extraction had delivered its result.
C23_Witness ==
    /\ pc = "conv_raised"
    /\ hybrid_calls /= <<>>
    /\ \E b \in DOMAIN futures : futures[b].state = "running"
    /\ result = PlainResult
    /\ result.markdown /= <<>>
    /\ conv_return = ConvRaised(CONVERSION_TIMEOUT_STATUS)

\* ---- claims about the matches of patch_markdown

\* The spans, in the text after the first n regions of order have had their
\* turn, of the delimited latex inserted for them: start is the position of
\* the first character and end the position after the last.  A span that
\* lies after a later replacement moves with the text.
RECURSIVE InsertedSpans(_, _, _)
InsertedSpans(text, order, n) ==
    IF n = 0
    THEN {}
    ELSE LET before == TextAfter(text, order, n - 1)
             region == regions[order[n]]
             m      == RegionMatch(before, region)
             len    == Len(Replacement(region, Strip(region.latex)))
             delta  == len - (m.end - m.start)
             old    == InsertedSpans(text, order, n - 1)
         IN  IF m = NoMatch
             THEN old
             ELSE { IF sp.start >= m.end
                    THEN [start |-> sp.start + delta, end |-> sp.end + delta]
                    ELSE sp : sp \in old }
                  \cup {[start |-> m.start, end |-> m.start + len]}

Overlaps(m, sp) == m.start < sp.end /\ sp.start < m.end

\* C24: the match found for a region never lies inside or overlaps the
\* delimited latex inserted for a region of the same page patched before it.
C24_NoMatchInsideInserted ==
    PatchTurn =>
        LET m == RegionMatch(patched, regions[page_regions[ri]])
        IN  m /= NoMatch =>
              \A sp \in InsertedSpans(page_markdowns[page_idx + 1],
                                      page_regions, ri - 1) :
                  ~Overlaps(m, sp)

\* ---- claims about the frame of a replacement

\* text2 is text with the positions s..(e - 1) replaced by mid and all other
\* characters kept.
OnlySpanChanged(text, text2, s, e, mid) ==
    /\ Len(text2) = (s - 1) + Len(mid) + (Len(text) - e + 1)
    /\ \A k \in 1..(s - 1) : text2[k] = text[k]
    /\ \A k \in 1..Len(mid) : text2[s - 1 + k] = mid[k]
    /\ \A k \in e..Len(text) : text2[k - e + s + Len(mid)] = text[k]

\* The regions of page p in the order of their turns.
TurnsOf(p) == SortedPageRegions(regions, p)

\* C25 (state part): the region in turn belongs to the page in work; the
\* pages finished so far are, one per input page and in input order, the
\* input page with the regions of that page alone applied to it; the result
\* is those pages joined.
C25_PagesApart ==
    /\ PatchTurn => regions[page_regions[ri]].page_num = page_idx
    /\ pc \in {"patch_page", "patch_region", "patch_done"} =>
          /\ Len(patched_pages) = page_idx
          /\ page_idx <= Len(page_markdowns)
          /\ \A k \in 1..Len(patched_pages) :
                /\ patched_pages[k]
                     = TextAfter(page_markdowns[k], TurnsOf(k - 1),
                                 Len(TurnsOf(k - 1)))
                /\ (\A i \in 1..Len(regions) : regions[i].page_num /= k - 1)
                      => patched_pages[k] = page_markdowns[k]
    /\ pc = "patch_done" =>
          /\ Len(patched_pages) = Len(page_markdowns)
          /\ patch_result = JoinLines(patched_pages)

\* C25: a replacement changes only the matched span of the current text of
\* the region's own page (the text before the match start and from the match
\* end on is kept, at the offsets of the current text), the pages already
\* finished are not touched by it, a region that is skipped changes nothing,
\* and the output has one segment per input page in input order.
C25_OnlyMatchedSpanChanges ==
    /\ []C25_PagesApart
    /\ [][ PatchTurn =>
             LET region == regions[page_regions[ri]]
                 m      == RegionMatch(patched, region)
             IN  /\ patched_pages' = patched_pages
                 /\ page_markdowns' = page_markdowns
                 /\ IF m = NoMatch
                    THEN patched' = patched
                    ELSE /\ 1 <= m.start /\ m.start < m.end
                         /\ m.end <= Len(patched) + 1
                         /\ OnlySpanChanged(patched, patched', m.start, m.end,
                                            Replacement(region, Strip(region.latex)))
           ]_vars

\* Two regions of the second page were patched one after the other, the
\* second at its offsets in the text the first had left (the formula had
\* moved three places to the left), with the text before the first match
\* kept and the first page, where the pattern matches too, left alone.
C25_Witness ==
    /\ pc = "patch_done"
    /\ Len(page_markdowns) = 2
    /\ page_markdowns[2] = <<"a", "_", "x", "_", " ", "y", " ", "x", "y">>
    /\ Len(regions) = 2
    /\ \A i \in 1..2 : regions[i].page_num = 1 /\ regions[i].raw_chars = <<"x", "y">>
    /\ MatchExists(page_markdowns[1], <<"x", "y">>)
    /\ patched_pages[1] = page_markdowns[1]
    /\ patched_pages[2] = <<"a", "$", "z", "$", "$", "z", "$">>
    /\ total_patched = 2

\* ---- claims about the pass of _merge_nearby_regions

\* The raw_chars, and the spans, of the regions lo..hi of seq in order.
RECURSIVE RawCharsOf(_, _, _)
RawCharsOf(seq, lo, hi) ==
    IF hi < lo THEN <<>>
    ELSE RawCharsOf(seq, lo, hi - 1) \o seq[hi].raw_chars

RECURSIVE SpansOf(_, _, _)
SpansOf(seq, lo, hi) ==
    IF hi < lo THEN <<>>
    ELSE SpansOf(seq, lo, hi - 1) \o seq[hi].spans

\* r holds, in input order, exactly the contents of the input regions lo..hi.
IsRunOf(r, lo, hi) ==
    /\ lo <= hi
    /\ r.raw_chars = RawCharsOf(regions, lo, hi)
    /\ r.spans = SpansOf(regions, lo, hi)
    /\ r.page_num = regions[lo].page_num

\* The input can be cut at positions c[0] = 0 < c[1] < ... < c[n] = upto so
\* that the k-th region of out is the run (c[k-1] + 1)..c[k] of the input.
RECURSIVE CutsInto(_, _, _)
CutsInto(out, n, upto) ==
    IF n = 0
    THEN upto = 0
    ELSE \E lo \in 1..upto :
            /\ IsRunOf(out[n], lo, upto)
            /\ CutsInto(out, n - 1, lo - 1)

\* C26 (state part): the regions emitted so far followed by the accumulator
\* are, in input order, merges of contiguous runs that cover the input read
\* so far; on return the output covers the whole input, its raw_chars and
\* spans concatenate to those of the input, it has at most as many regions
\* as the input and is empty only for an empty input.
C26_RunsInOrder ==
    /\ pc = "merge_loop" =>
          /\ CutsInto(Append(merged, current), Len(merged) + 1, idx - 1)
          /\ Len(merged) + 1 <= idx - 1
    /\ pc = "merge_done" =>
          /\ CutsInto(merged, Len(merged), Len(regions))
          /\ RawCharsOf(merged, 1, Len(merged))
               = RawCharsOf(regions, 1, Len(regions))
          /\ SpansOf(merged, 1, Len(merged)) = SpansOf(regions, 1, Len(regions))
          /\ Len(merged) <= Len(regions)
          /\ (merged = <<>>) <=> (regions = <<>>)

\* C26: _merge_nearby_regions is one forward pass that loses and reorders
\* nothing; the input is read once from first to last, and a region once
\* emitted stays as it is: only the accumulator takes up later regions.
C26_SinglePassLosesNothing ==
    /\ []C26_RunsInOrder
    /\ [][ pc = "merge_loop" =>
             /\ regions' = regions
             /\ idx' >= idx
             /\ Len(merged') >= Len(merged)
             /\ \A k \in 1..Len(merged) : merged'[k] = merged[k] ]_vars

\* Three regions: the first was emitted when the second did not qualify,
\* the third was merged into the second, although it would qualify for a
\* merge with the first, which was already emitted.
C26_Witness ==
    /\ pc = "merge_done"
    /\ Len(regions) = 3
    /\ Len(merged) = 2
    /\ merged[1] = regions[1]
    /\ merged[2].raw_chars = <<"b", "2", "c", "2">>
    /\ Len(merged[2].spans) = 2
    /\ ShouldMerge(regions[1], regions[3])

\* ---- claims about the bounding boxes

\* A run without text or with whitespace only.
WhitespaceOnly(span) ==
    \A k \in 1..Len(SpanText(span)) : SpanText(span)[k] \in Whitespace

\* The positions of the runs of a group that are left when the
\* whitespace-only runs at its two ends are removed.
ContentPositions(spans) ==
    LET solid == {k \in 1..Len(spans) : ~WhitespaceOnly(spans[k])}
    IN  {k \in 1..Len(spans) :
            (\E a \in solid : a <= k) /\ (\E b \in solid : k <= b)}

\* box is the smallest box that contains every box of the set bs.
IsBoxUnion(box, bs) ==
    /\ \A b \in bs : box[1] <= b[1] /\ box[2] <= b[2]
                     /\ b[3] <= box[3] /\ b[4] <= box[4]
    /\ \E b \in bs : box[1] = b[1]
    /\ \E b \in bs : box[2] = b[2]
    /\ \E b \in bs : box[3] = b[3]
    /\ \E b \in bs : box[4] = b[4]

Normalized(box) == box[1] <= box[3] /\ box[2] <= box[4]

\* C27: the box of every region _build_region builds is the union of the
\* boxes of the group's runs without the whitespace-only runs at its ends,
\* and is normalized; the accumulator and every region the merge emits have
\* the union of the boxes of the regions they replace, and are normalized.
C27_BoxIsUnionOfContent ==
    /\ \A g \in 1..Len(groups) :
          groups[g].built /= <<>> =>
             LET r == groups[g].built[1]
                 content == ContentPositions(groups[g].spans)
             IN  /\ content /= {}
                 /\ IsBoxUnion(r.bbox, {groups[g].spans[k].bbox : k \in content})
                 /\ Normalized(r.bbox)
    /\ \A k \in 1..Len(merged) :
          pc \in {"merge_loop", "merge_done"} =>
             /\ mergedSrc[k] /= {}
             /\ IsBoxUnion(merged[k].bbox, {regions[i].bbox : i \in mergedSrc[k]})
             /\ Normalized(merged[k].bbox)
    /\ pc = "merge_loop" =>
          /\ IsBoxUnion(current.bbox, {regions[i].bbox : i \in curSrc})
          /\ Normalized(current.bbox)

\* Detection returned a region merged from two groups whose box is wider
\* than either, and a group with a whitespace-only run at an end was built
\* with a box that does not reach over that run.
C27_Witness ==
    /\ pc = "merge_done"
    /\ \E k \in 1..Len(merged) :
          /\ Cardinality(mergedSrc[k]) = 2
          /\ \A i \in mergedSrc[k] : regions[i].bbox /= merged[k].bbox
    /\ \E g \in 1..Len(groups) :
          /\ groups[g].built /= <<>>
          /\ WhitespaceOnly(groups[g].spans[Len(groups[g].spans)])
          /\ groups[g].built[1].bbox[3]
               < groups[g].spans[Len(groups[g].spans)].bbox[3]

\* ---- claims about the locks of the convert route

\* Request r is between the start of its download and the end of its cache
\* write.
InConversion(r) == req[r].pc \in {"downloading", "converting"}

\* C28: at most one request per source url is at any time between the start
\* of its download and the end of its cache write.
C28_OneConversionPerUrl ==
    \A r1, r2 \in DOMAIN req :
        (r1 /= r2 /\ InConversion(r1) /\ InConversion(r2))
            => req[r1].source_url /= req[r2].source_url

\* Request r has taken a lock object from the table and not yet finished.
UsesLock(r) == req[r].pc \in {"waiting", "downloading", "converting"}

\* After the step, some request still waits for or holds lock object lid.
StillUsed(lid) ==
    \E r \in DOMAIN req :
        /\ req'[r].pc \in {"waiting", "downloading", "converting"}
        /\ req'[r].lock = lid

\* Request r finishes in this step while, after it, no other request for
\* its url waits for or holds a lock.
FinishesAlone(r) ==
    /\ UsesLock(r)
    /\ req'[r].pc = "done"
    /\ \A r2 \in DOMAIN req :
          (r2 /= r /\ req'[r2].source_url = req[r].source_url)
              => req'[r2].pc \notin {"waiting", "downloading", "converting"}

\* C29: a url's lock leaves the lock table only when no other request waits
\* for or holds it, so all requests queued at one time for one url use the
\* same lock object; and a request that finishes with no other request
\* waiting leaves no entry for its url in the table, whichever way it
\* finishes.
C29_LockTableClean ==
    /\ [](\A r1, r2 \in DOMAIN req :
            (UsesLock(r1) /\ UsesLock(r2)
               /\ req[r1].source_url = req[r2].source_url)
                => req[r1].lock = req[r2].lock)
    /\ [][ /\ \A key \in DOMAIN conversion_locks :
                key \notin DOMAIN conversion_locks'
                   => ~StillUsed(conversion_locks[key])
           /\ \A r \in DOMAIN req :
                FinishesAlone(r)
                   => UrlToCacheKey(req[r].source_url)
                        \notin DOMAIN conversion_locks' ]_vars

\* The three parts of C29 one by one.
C29_SameLockObject ==
    \A r1, r2 \in DOMAIN req :
        (UsesLock(r1) /\ UsesLock(r2)
           /\ req[r1].source_url = req[r2].source_url)
            => req[r1].lock = req[r2].lock

C29_RemovedOnlyUnused ==
    [][ \A key \in DOMAIN conversion_locks :
           key \notin DOMAIN conversion_locks'
              => ~StillUsed(conversion_locks[key]) ]_vars

C29_NoEntryLeft ==
    [][ \A r \in DOMAIN req :
           FinishesAlone(r)
              => UrlToCacheKey(req[r].source_url)
                   \notin DOMAIN conversion_locks' ]_vars

C29_SuccessLeavesNoEntry ==
    [][ \A r \in DOMAIN req :
           (FinishesAlone(r) /\ req'[r].resp.status_code = 200
              /\ req[r].pc = "converting")
              => UrlToCacheKey(req[r].source_url)
                   \notin DOMAIN conversion_locks' ]_vars

NoCallUnderWay == \A c \in DOMAIN stat_calls : stat_calls[c].pc = "idle"

\* C30: the counters are incremented atomically and independently: once n
\* calls of put and m calls of record_read on one cache directory have
\* completed, however they interleaved, stats() reports total_conversions = n
\* and total_reads = m; both start at 0.
C30_CountersExact ==
    NoCallUnderWay =>
        /\ Stats(disk, stats_data).total_conversions
              = stat_completed.total_conversions
        /\ Stats(disk, stats_data).total_reads = stat_completed.total_reads

\* The part of C30 about independence: a completing put leaves total_reads
\* alone and a completing record_read leaves total_conversions alone.
C30_Independent ==
    [][ \A c \in DOMAIN stat_calls :
          (stat_calls[c].pc = "read" /\ stat_calls'[c].pc = "idle")
             => \A k \in {"total_conversions", "total_reads"} \ {stat_calls[c].key} :
                   stats_data'[k] = stats_data[k] ]_vars

\* At most one call is under way, and what it read is what the file holds.
OneCallAtATime ==
    \A c \in DOMAIN stat_calls :
        stat_calls[c].pc /= "idle"
            => /\ \A c2 \in DOMAIN stat_calls \ {c} : stat_calls[c2].pc = "idle"
               /\ (stat_calls[c].pc = "read" => stat_calls[c].data = stats_data)

\* The counters stay exact while calls do not overlap, as within one event
\* loop, where put and record_read run to their end without yielding.
C30_ExactWhenSequential ==
    [][ (OneCallAtATime /\ stats_data = stat_completed)
            => stats_data' = stat_completed' ]_vars
====
